---- MODULE Spec2Model ----
(***************************************************************************)
(* The kingdom turn and economy engine of pf2e-kingmaker-tools             *)
(* (src/src/kingdom/kingdom.ts, class KingdomApp): the persisted Kingdom   *)
(* record, the settlement data read from the game's scenes, and the turn   *)
(* handlers wired to the sheet's buttons.                                  *)
(***************************************************************************)
EXTENDS Integers, Sequences, FiniteSets, Bags, TLC

VARIABLES
    kingdom,      \* the persisted record: sheetActor flag 'kingdom-sheet'
    settlements,  \* getAllSettlementSceneDataAndStructures(game): SettlementSceneData[]
    pre,          \* the record the handler that saved or returned last had read
    prior,        \* the persisted record just before that save or return
    step,         \* the handler that saved or returned last ("init" before the first)
    out,          \* what that handler rolled and posted to chat
    clicks,       \* the number of handler invocations so far
    tasks,        \* the bag of handler runs suspended at an await, each with its position
    host          \* the host outside the record: registered hooks, the sheets, the scenes, world settings

vars == <<kingdom, settlements, pre, prior, step, out, clicks, tasks, host>>

----------------------------------------------------------------------------
\* Bounds of the model.

\* handler invocations explored per run
MaxSteps == 2
\* settlement scenes in the game
MaxSettlements == 2
\* largest resourcePoints.now a CollectResources roll may reach
MaxRP == 16
\* largest stored turnsWithoutEvent in an initial state
MaxTurns == 5

----------------------------------------------------------------------------
\* Plain helpers.

Min(a, b) == IF a <= b THEN a ELSE b

Max(a, b) == IF a >= b THEN a ELSE b

Commodity == {"food", "luxuries", "ore", "lumber", "stone"}

\* Array.prototype.some over a sequence
Some(seq, P(_)) == \E i \in 1..Len(seq) : P(seq[i])

\* Array.prototype.filter(...).length over a sequence
CountIf(seq, P(_)) == Cardinality({i \in 1..Len(seq) : P(seq[i])})

\* the host's flag store (Actor.setFlag), as the persistence contract has it:
\* a partial record replaces the top-level fields it names and leaves the
\* others
setFlag(stored, value) ==
    [f \in DOMAIN stored \cup DOMAIN value |->
        IF f \in DOMAIN value THEN value[f] ELSE stored[f]]

\* saveKingdom: one setFlag with the partial record it is handed
saveKingdom(k, partial) == setFlag(k, partial)

----------------------------------------------------------------------------
\* The sheet and the host's hooks (kingdom.ts: activateListeners, update,
\* close). host.hooks is the host's registry, in registration order; a
\* function is known by its identity: 0 is the method this.sceneChange, n > 0
\* the n-th function made by this.sceneChange.bind(this).

SheetHooks == {"canvasReady", "createToken", "deleteToken"}

\* Hooks.on(hook, fn) of the host
hooksOn(hooks, hook, fn) == Append(hooks, [hook |-> hook, fn |-> fn])

\* Hooks.off(hook, fn) of the host: removes the first registration of that
\* very function for the hook, if there is one
hooksOff(hooks, hook, fn) ==
    LET matches == {i \in 1..Len(hooks) : hooks[i].hook = hook /\ hooks[i].fn = fn}
    IN  IF matches = {} THEN hooks
        ELSE LET first == CHOOSE i \in matches : \A j \in matches : i <= j
             IN  SubSeq(hooks, 1, first - 1) \o SubSeq(hooks, first + 1, Len(hooks))

\* activateListeners: three Hooks.on, each with a function bound anew
activateListeners(h) ==
    [h EXCEPT
        !.hooks = hooksOn(hooksOn(hooksOn(h.hooks, "canvasReady", h.bound + 1),
                                  "createToken", h.bound + 2),
                          "deleteToken", h.bound + 3),
        !.bound = h.bound + 3]

\* close: three Hooks.off with the method itself, then the sheet is closed
close(h) ==
    [h EXCEPT
        !.hooks = hooksOff(hooksOff(hooksOff(h.hooks, "canvasReady", 0), "createToken", 0),
                           "deleteToken", 0),
        !.sheet = "closed"]

\* the host's render of the sheet: the listeners are activated on every one
render(h) == [activateListeners(h) EXCEPT !.sheet = "rendered"]

\* this.render() of a sheet that may have been closed meanwhile: the host
\* renders again only what is on screen
rerender(h) == IF h.sheet = "rendered" THEN render(h) ELSE h

\* the lists with a delete button on each entry
DeletableProperties == {"ongoingEvents", "groups", "bonusFeats"}

\* the feats of ./data/feats by their name (the table is not part of the
\* sources at hand): the feats the handlers name, and "-" for no feat
allFeatsByName ==
    [id \in {"Insider Trading", "Endure Anarchy", "-"} |->
        [id |-> id, name |-> id, level |-> 1]]

\* getFeats, the bonus feats it hands to the sheet: the stored ones whose id
\* is the name of a feat, each replaced by the feat of that name
getFeats(bonusFeats) ==
    LET known == SelectSeq(bonusFeats,
                           LAMBDA feat : /\ "id" \in DOMAIN feat
                                         /\ feat.id \in DOMAIN allFeatsByName)
    IN  [i \in 1..Len(known) |-> allFeatsByName[known[i].id]]

\* getData of the sheet, run by each of its renders: the stored record is read
\* for what the sheet shows. Where the entries on the sheet are followed,
\* h.lists has the lists as the sheet on screen shows them, each entry with a
\* delete button that carries its index
getData(h, k) ==
    IF "lists" \in DOMAIN h /\ h.sheet = "rendered"
    THEN [h EXCEPT !.lists = [ongoingEvents |-> k.ongoingEvents,
                              groups |-> k.groups,
                              bonusFeats |-> getFeats(k.bonusFeats)]]
    ELSE h

----------------------------------------------------------------------------
\* Data tables of ./data/kingdom (not part of the sources at hand).

\* the size table: kingdom type thresholds 10, 25, 50, 100
getSizeData(kingdomSize) ==
    IF kingdomSize < 10 THEN [resourceDieSize |-> 4, commodityCapacity |-> 4]
    ELSE IF kingdomSize < 25 THEN [resourceDieSize |-> 6, commodityCapacity |-> 8]
    ELSE IF kingdomSize < 50 THEN [resourceDieSize |-> 8, commodityCapacity |-> 12]
    ELSE IF kingdomSize < 100 THEN [resourceDieSize |-> 10, commodityCapacity |-> 16]
    ELSE [resourceDieSize |-> 12, commodityCapacity |-> 20]

\* the level table: base resource dice of its key
getLevelData(kingdomLevel) == [resourceDice |-> kingdomLevel + 4]

\* the Dice Port: the totals `new Roll(n + 'd' + faces).roll()` can return
RollTotals(n, faces) == IF n <= 0 THEN {0} ELSE n..(n * faces)

----------------------------------------------------------------------------
\* Settlement aggregation.

\* the initial accumulator of getSettlementData's reduce
emptySettlementData ==
    [leadershipActivityNumber |-> 2,
     settlementConsumption |-> 0,
     storage |-> [ore |-> 0, stone |-> 0, luxuries |-> 0, lumber |-> 0, food |-> 0],
     unlockedActivities |-> {}]

\* the map step with the unlocked activities left out
mapSettlementNoActivities(settlement) ==
    [leadershipActivityNumber |->
        IF settlement.settlement.leadershipActivityBonus THEN 3 ELSE 2,
     settlementConsumption |-> settlement.settlement.consumption,
     storage |-> settlement.settlement.storage,
     unlockedActivities |-> {}]

\* the map step of getSettlementData
mapSettlement(settlement) ==
    [leadershipActivityNumber |->
        IF settlement.settlement.leadershipActivityBonus THEN 3 ELSE 2,
     settlementConsumption |-> settlement.settlement.consumption,
     storage |-> settlement.settlement.storage,
     unlockedActivities |-> settlement.settlement.unlockActivities]

\* the reduce step taking the leadership activities of the later settlement
reduceSettlementLastLeader(prev, curr) ==
    [leadershipActivityNumber |-> curr.leadershipActivityNumber,
     settlementConsumption |-> prev.settlementConsumption + curr.settlementConsumption,
     storage |->
        [c \in Commodity |-> prev.storage[c] + curr.storage[c]],
     unlockedActivities |-> prev.unlockedActivities \cup curr.unlockedActivities]

\* the reduce step of getSettlementData
reduceSettlement(prev, curr) ==
    [leadershipActivityNumber |->
        Max(prev.leadershipActivityNumber, curr.leadershipActivityNumber),
     settlementConsumption |-> prev.settlementConsumption + curr.settlementConsumption,
     storage |->
        [ore |-> prev.storage.ore + curr.storage.ore,
         stone |-> prev.storage.stone + curr.storage.stone,
         luxuries |-> prev.storage.luxuries + curr.storage.luxuries,
         lumber |-> prev.storage.lumber + curr.storage.lumber,
         food |-> prev.storage.food + curr.storage.food],
     unlockedActivities |-> prev.unlockedActivities \cup curr.unlockedActivities]

RECURSIVE foldSettlements(_, _)
foldSettlements(acc, list) ==
    IF list = <<>> THEN acc
    ELSE foldSettlements(reduceSettlement(acc, mapSettlement(Head(list))), Tail(list))

getSettlementData(list) == foldSettlements(emptySettlementData, list)

\* calculateStorageCapacity with the settlement storage left out
calculateStorageCapacityNoStorage(capacity, storage) ==
    [food |-> capacity, ore |-> capacity, luxuries |-> capacity,
     lumber |-> capacity, stone |-> capacity]

calculateStorageCapacity(capacity, storage) ==
    [food |-> capacity + storage.food,
     ore |-> capacity + storage.ore,
     luxuries |-> capacity + storage.luxuries,
     lumber |-> capacity + storage.lumber,
     stone |-> capacity + storage.stone]

\* reads the game's settlement scenes
getCapacity(sizeData) ==
    calculateStorageCapacity(sizeData.commodityCapacity,
                             getSettlementData(settlements).storage)

----------------------------------------------------------------------------
\* EndTurn.

\* endTurn, had it left the commodities' next column as it was
endTurnUpdateKeepingNext(current, capacity) ==
    [resourceDice |-> [now |-> current.resourcePoints.next, next |-> 0],
     resourcePoints |-> [now |-> current.resourcePoints.next, next |-> 0],
     consumption |->
        [now |-> current.consumption.next,
         next |-> 0,
         armies |-> current.consumption.armies],
     commodities |->
        [now |->
            [c \in Commodity |->
                Min(capacity[c], current.commodities.now[c] + current.commodities.next[c])],
         next |-> current.commodities.next]]

\* endTurn, had it added the next column without regard to the capacity
endTurnUpdateUnlimited(current, capacity) ==
    [resourceDice |-> [now |-> current.resourcePoints.next, next |-> 0],
     resourcePoints |-> [now |-> current.resourcePoints.next, next |-> 0],
     consumption |->
        [now |-> current.consumption.next,
         next |-> 0,
         armies |-> current.consumption.armies],
     commodities |->
        [now |->
            [c \in Commodity |-> current.commodities.now[c] + current.commodities.next[c]],
         next |-> [c \in Commodity |-> 0]]]

\* the partial record endTurn hands to update
endTurnUpdate(current, capacity) ==
    [resourceDice |-> [now |-> current.resourcePoints.next, next |-> 0],
     resourcePoints |-> [now |-> current.resourcePoints.next, next |-> 0],
     consumption |->
        [now |-> current.consumption.next,
         next |-> 0,
         armies |-> current.consumption.armies],
     commodities |->
        [now |->
            [food |-> Min(capacity.food,
                          current.commodities.now.food + current.commodities.next.food),
             luxuries |-> Min(capacity.luxuries,
                              current.commodities.now.luxuries
                                  + current.commodities.next.luxuries),
             stone |-> Min(capacity.stone,
                           current.commodities.now.stone + current.commodities.next.stone),
             lumber |-> Min(capacity.lumber,
                            current.commodities.now.lumber + current.commodities.next.lumber),
             ore |-> Min(capacity.ore,
                         current.commodities.now.ore + current.commodities.next.ore)],
         next |-> [food |-> 0, luxuries |-> 0, stone |-> 0, lumber |-> 0, ore |-> 0]]]

\* The handlers as the event loop runs them: a handler reads the record when
\* its button is clicked and is suspended at its first await (a chat message,
\* a dice roll); whatever else was clicked is handled meanwhile; it is
\* resumed when the awaited call has settled and runs to its next await, and
\* so on; after the last of them it hands what it built from the record it
\* had read to update, which is suspended in turn until the host has settled
\* the save, and renders the sheet after that.

\* an awaited call of the host: a chat message, or a roll whose total is not
\* followed
Awaited(call) == [call |-> call, rolls |-> FALSE, totals |-> {}, atLeast |-> 0]

\* an awaited roll and the totals it can settle with
AwaitedRoll(totals) ==
    [call |-> "Roll.roll", rolls |-> TRUE, totals |-> totals, atLeast |-> 0]

\* a call that is made and awaited only if the roll before it came to atLeast
AwaitedIf(call, atLeast) ==
    [call |-> call, rolls |-> FALSE, totals |-> {}, atLeast |-> atLeast]

\* the total of the last roll settled, 0 before the first
lastRolled(rolled) == IF rolled = <<>> THEN 0 ELSE rolled[Len(rolled)]

\* the awaited calls still to come: those whose condition fails are passed
\* over
RECURSIVE awaitsLeft(_, _)
awaitsLeft(calls, rolled) ==
    IF calls = <<>> THEN <<>>
    ELSE IF lastRolled(rolled) >= Head(calls).atLeast THEN calls
    ELSE awaitsLeft(Tail(calls), rolled)

\* a suspended run: the handler, what it read before its first await, the
\* call it waits for followed by those it awaits after that one, and the
\* totals of the rolls settled so far
Run(name, read, calls) ==
    [handler |-> name, at |-> "await", read |-> read, calls |-> calls, rolled |-> <<>>]

NoTasks == EmptyBag

\* a handler from the click to its first await, for a click that comes
\* within the bound on clicks: nothing is written yet
Clicked(within, run) ==
    /\ within
    /\ clicks' = clicks + 1
    /\ tasks' = tasks (+) SetToBag({run})
    /\ UNCHANGED <<kingdom, settlements, pre, prior, step, out, host>>

\* the runs suspended on an awaited call before their save
Awaiting == {run \in BagToSet(tasks) : run.at = "await"}

\* a suspended run from the call it waits for to its next await: the call
\* has settled (a roll with one of its totals) and the next one is made;
\* nothing is read or written in between
ResumeAwait ==
    \E run \in Awaiting :
        LET pending == Head(run.calls)
        IN  \E total \in (IF pending.rolls THEN pending.totals ELSE {0}) :
                LET rolled == IF pending.rolls THEN Append(run.rolled, total)
                              ELSE run.rolled
                    left == awaitsLeft(Tail(run.calls), rolled)
                IN  /\ left # <<>>
                    /\ tasks' = (tasks (-) SetToBag({run}))
                                    (+) SetToBag({[run EXCEPT !.calls = left,
                                                              !.rolled = rolled]})
                    /\ UNCHANGED <<kingdom, settlements, pre, prior, step, out,
                                   clicks, host>>

\* the stored record takes a partial: `current` is the record the handler
\* had read, `posted` what it rolled and sent to chat
Written(name, current, data, posted) ==
    /\ kingdom' = saveKingdom(kingdom, data)
    /\ pre' = current
    /\ prior' = kingdom
    /\ step' = name
    /\ out' = posted

NotWritten == UNCHANGED <<kingdom, pre, prior, step, out>>

\* saveKingdom up to its await: the partial is handed to the host's setFlag
\* and the caller (`at`) is suspended on it. The host has changed the stored
\* record when the call returns, or changes it when it settles the call.
SetFlagCalled(rest, at, name, current, data, posted) ==
    \/ /\ Written(name, current, data, posted)
       /\ tasks' = rest (+) SetToBag({[handler |-> name, at |-> at, written |-> TRUE]})
    \/ /\ NotWritten
       /\ tasks' = rest (+) SetToBag({[handler |-> name, at |-> at, written |-> FALSE,
                                       saving |-> data, read |-> current,
                                       posted |-> posted]})

\* the host settles a setFlag
SetFlagSettled(run) ==
    IF run.written THEN NotWritten
    ELSE Written(run.handler, run.read, run.saving, run.posted)

\* the runs suspended on a setFlag called by `at`
Saving(at) == {run \in BagToSet(tasks) : run.at = at}

\* a handler returns without a call of update
Returned(rest, name, current, posted) ==
    /\ pre' = current
    /\ prior' = kingdom
    /\ step' = name
    /\ out' = posted
    /\ tasks' = rest
    /\ UNCHANGED kingdom

\* a call of KingdomApp.update with a partial record
update(data) == [called |-> TRUE, data |-> data]

\* a handler that ends without a call of update
noUpdate == [called |-> FALSE]

\* the last stretch of a handler, up to its return or to the await of
\* update: `rest` are the other suspended runs
Finished(rest, name, current, result, posted) ==
    IF result.called
    THEN SetFlagCalled(rest, "update", name, current, result.data, posted)
    ELSE Returned(rest, name, current, posted)

Ended(rest, name, current, result, posted) ==
    /\ Finished(rest, name, current, result, posted)
    /\ UNCHANGED <<settlements, host>>

\* a suspended run resumed and run to that point
Resumed(run, current, result, posted) ==
    /\ BagIn(run, tasks)
    /\ Ended(tasks (-) SetToBag({run}), run.handler, current, result, posted)
    /\ UNCHANGED clicks

\* a handler that reaches that point without an await, in the click itself
Completed(bound, name, current, result, posted) ==
    /\ clicks < bound
    /\ clicks' = clicks + 1
    /\ Ended(tasks, name, current, result, posted)

\* KingdomApp.update (and _updateObject) from the await of saveKingdom: the
\* save is settled, then this.render(), whose getData reads the stored record
ResumeUpdate ==
    \E run \in Saving("update") :
        /\ SetFlagSettled(run)
        /\ tasks' = tasks (-) SetToBag({run})
        /\ host' = getData(rerender(host), kingdom')
        /\ UNCHANGED <<settlements, clicks>>

\* no run is suspended: a click that comes when the handlers before it have
\* ended
Idle == tasks = NoTasks

\* the runs of a handler that are suspended on the last call they await
\* before their save or return
Suspended(name) ==
    {run \in Awaiting :
        /\ run.handler = name
        /\ ~Head(run.calls).rolls
        /\ awaitsLeft(Tail(run.calls), run.rolled) = <<>>}

\* endTurn up to its first await (ChatMessage.create)
ClickEndTurn ==
    LET current == kingdom
        sizeData == getSizeData(current.size)
        capacity == getCapacity(sizeData)
    IN  Clicked(clicks < MaxSteps,
                Run("endTurn", [current |-> current, capacity |-> capacity],
                    <<Awaited("ChatMessage.create")>>))

\* endTurn from the chat message to the end of update
ResumeEndTurn ==
    \E run \in Suspended("endTurn") :
        Resumed(run, run.read.current,
                update(endTurnUpdate(run.read.current, run.read.capacity)),
                [rolls |-> <<>>, chat |-> <<[title |-> "Ending Turn"]>>])

----------------------------------------------------------------------------
\* CollectResources.

hasFeat(list, id) == Some(list, LAMBDA f : f.id = id)

\* insiderTradingResources looking at the level feats only
insiderTradingResourcesFeatsOnly(feats, bonusFeat) ==
    IF hasFeat(feats, "Insider Trading") THEN 1 ELSE 0

insiderTradingResources(feats, bonusFeat) ==
    LET hasInsiderTrading ==
            hasFeat(feats, "Insider Trading") \/ hasFeat(bonusFeat, "Insider Trading")
    IN  IF hasInsiderTrading THEN 1 ELSE 0

\* the raw yield, had lumber come from the lumber camps and stone from none
calculateCommoditiesThisTurnLumberFromCamps(k) ==
    LET sites == k.workSites
    IN  [ore |-> sites.mines.quantity + sites.mines.resources,
         lumber |-> sites.lumberCamps.quantity + sites.lumberCamps.resources,
         luxuries |-> sites.luxurySources.quantity + sites.luxurySources.resources,
         stone |-> 0]

calculateCommoditiesThisTurn(k) ==
    LET sites == k.workSites
    IN  [ore |-> sites.mines.quantity + sites.mines.resources,
         lumber |-> sites.mines.quantity + sites.mines.resources,
         luxuries |-> sites.luxurySources.quantity + sites.luxurySources.resources,
         stone |-> sites.lumberCamps.quantity + sites.lumberCamps.resources]

\* the number of resource dice collectResources rolls
collectDice(current) ==
    LET levelData == getLevelData(current.size)
        featDice == insiderTradingResources(current.feats, current.bonusFeats)
    IN  levelData.resourceDice + current.resourceDice.now + featDice

\* the partial record collectResources hands to update
collectResourcesUpdate(current, capacity, rolledPoints) ==
    LET commodities == calculateCommoditiesThisTurn(current)
    IN  [resourcePoints |->
            [now |-> current.resourcePoints.now + rolledPoints,
             next |-> current.resourcePoints.next],
         resourceDice |-> [now |-> 0, next |-> current.resourceDice.next],
         commodities |->
            [now |->
                [ore |-> Min(capacity.ore, commodities.ore),
                 lumber |-> Min(capacity.lumber, commodities.lumber),
                 luxuries |-> Min(capacity.luxuries, commodities.luxuries),
                 stone |-> Min(capacity.stone, commodities.stone),
                 food |-> current.commodities.now.food],
             next |-> current.commodities.next]]

\* the roll and the chat message of collectResources
collectResourcesPosted(current, dice, faces, rolledPoints) ==
    LET commodities == calculateCommoditiesThisTurn(current)
    IN  [rolls |-> <<[count |-> dice, faces |-> faces, total |-> rolledPoints]>>,
         chat |-> <<[title |-> "Collecting Resources",
                     resourcePoints |-> rolledPoints,
                     ore |-> commodities.ore,
                     lumber |-> commodities.lumber,
                     stone |-> commodities.stone,
                     luxuries |-> commodities.luxuries]>>]

\* the totals of rollResourceDice explored: those keeping resourcePoints.now in bounds
rollResourceDice(current, faces, dice) ==
    {t \in RollTotals(dice, faces) : current.resourcePoints.now + t <= MaxRP}

\* collectResources up to its first await, the roll of rollResourceDice;
\* the roll's message and the chat message are awaited after it
ClickCollectResources ==
    LET current == kingdom
        sizeData == getSizeData(current.size)
        capacity == getCapacity(sizeData)
        dice == collectDice(current)
    IN  Clicked(clicks < MaxSteps,
                Run("collectResources",
                    [current |-> current, capacity |-> capacity, dice |-> dice,
                     faces |-> sizeData.resourceDieSize],
                    <<AwaitedRoll(rollResourceDice(current, sizeData.resourceDieSize, dice)),
                      Awaited("roll.toMessage"),
                      Awaited("ChatMessage.create")>>))

\* collectResources from its chat message to the await of update
ResumeCollectResources ==
    \E run \in Suspended("collectResources") :
        LET current == run.read.current
            rolledPoints == run.rolled[1]
        IN  Resumed(run, current,
                    update(
                           collectResourcesUpdate(current, run.read.capacity,
                                                  rolledPoints)),
                    collectResourcesPosted(current, run.read.dice, run.read.faces,
                                           rolledPoints))

----------------------------------------------------------------------------
\* PayConsumption.

totalConsumption(current, list) ==
    current.consumption.armies + current.consumption.now
        + getSettlementData(list).settlementConsumption

\* payConsumptionUpdate without the floor at 0
payConsumptionUpdateNoFloor(current, total) ==
    [commodities |->
        [now |-> [current.commodities.now EXCEPT
                    !.food = current.commodities.now.food - total],
         next |-> current.commodities.next]]

\* payConsumption, had it paid 5 RP for each unit of missing food by itself
payConsumptionUpdatePayingRP(current, total) ==
    LET currentFood == current.commodities.now.food
    IN  [commodities |->
            [now |-> [current.commodities.now EXCEPT
                        !.food = Max(0, currentFood - total)],
             next |-> current.commodities.next],
         resourcePoints |->
            [current.resourcePoints EXCEPT
                !.now = Max(0, @ - 5 * Max(0, total - currentFood))]]

\* the partial record payConsumption hands to update
payConsumptionUpdate(current, total) ==
    LET currentFood == current.commodities.now.food
    IN  [commodities |->
            [now |-> [current.commodities.now EXCEPT
                        !.food = Max(0, currentFood - total)],
             next |-> current.commodities.next]]

\* the chat message of payConsumption
payConsumptionPosted(current, total) ==
    LET currentFood == current.commodities.now.food
        missingFood == total - currentFood
        pay == missingFood * 5
    IN  [rolls |-> <<>>,
         chat |-> <<[title |-> "Paying Consumption",
                     reducing |-> Min(currentFood, total),
                     missingShown |-> missingFood > 0,
                     missing |-> IF missingFood > 0 THEN missingFood ELSE 0,
                     pay |-> IF missingFood > 0 THEN pay ELSE 0]>>]

\* what payConsumption persists, given the record it read and the one stored
payConsumptionSaved(current, stored, list) ==
    LET total == totalConsumption(current, list)
    IN  IF total > 0 THEN saveKingdom(stored, payConsumptionUpdate(current, total))
        ELSE stored

\* payConsumption up to its first await (ChatMessage.create); with nothing to
\* consume it ends at once, without a save
ClickPayConsumption ==
    LET current == kingdom
        total == totalConsumption(current, settlements)
    IN  IF total > 0
        THEN Clicked(clicks < MaxSteps,
                     Run("payConsumption", [current |-> current, total |-> total],
                         <<Awaited("ChatMessage.create")>>))
        ELSE Completed(MaxSteps, "payConsumption", current, noUpdate,
                       [rolls |-> <<>>, chat |-> <<>>])

\* payConsumption from the chat message to the end of update
ResumePayConsumption ==
    \E run \in Suspended("payConsumption") :
        Resumed(run, run.read.current,
                update(payConsumptionUpdate(run.read.current, run.read.total)),
                payConsumptionPosted(run.read.current, run.read.total))

----------------------------------------------------------------------------
\* AdjustUnrest.

\* calculateAnarchy looking at the feats alone
calculateAnarchyFeatsOnly(feats, bonusFeats) ==
    IF hasFeat(feats, "Endure Anarchy") THEN 24 ELSE 20

calculateAnarchy(feats, bonusFeats) ==
    LET hasEndureAnarchy ==
            hasFeat(feats, "Endure Anarchy") \/ hasFeat(bonusFeats, "Endure Anarchy")
    IN  IF hasEndureAnarchy THEN 24 ELSE 20

overcrowdedSettlements(data) == CountIf(data, LAMBDA s : s.scenedData.overcrowded)

\* secondaryTerritories counting every secondary territory
secondaryTerritoriesCounted(data) ==
    CountIf(data, LAMBDA s : s.scenedData.secondaryTerritory)

secondaryTerritories(data) ==
    IF Some(data, LAMBDA s : s.scenedData.secondaryTerritory) THEN 1 ELSE 0

\* the unrest gained this turn
newUnrest(current, data) ==
    LET atWar == IF current.atWar THEN 1 ELSE 0
    IN  atWar + overcrowdedSettlements(data) + secondaryTerritories(data)

\* whether the "Envy of the World" branch is taken
envyOfTheWorld(current, data) ==
    current.level >= 20 /\ newUnrest(current, data) + current.unrest > 0

\* the unrest adjustUnrest hands to update
adjustedUnrest(current, data) ==
    IF envyOfTheWorld(current, data) THEN 0
    ELSE newUnrest(current, data) + current.unrest

\* adjustUnrestPosted, had the loss of a hex needed a roll above 11
adjustUnrestPostedAboveDC(current, data, hexTotal) ==
    LET unrest == adjustedUnrest(current, data)
    IN  [rolls |->
            IF unrest >= 10
            THEN <<[count |-> 1, faces |-> 10],
                   [count |-> 1, faces |-> 20, total |-> hexTotal]>>
            ELSE <<>>,
         chat |->
            (IF envyOfTheWorld(current, data)
             THEN <<[title |-> "Ignoring Unrest increase"]>> ELSE <<>>)
            \o (IF unrest > 0
                THEN <<[title |-> "Gaining Unrest", total |-> newUnrest(current, data)]>>
                ELSE <<>>)
            \o (IF unrest >= 10 /\ hexTotal > 11
                THEN <<[title |-> "You lose one hex"]>> ELSE <<>>)
            \o (IF unrest >= calculateAnarchy(current.feats, current.bonusFeats)
                THEN <<[title |-> "Kingdom falls into anarchy"]>> ELSE <<>>)]

\* the rolls and chat messages of adjustUnrest, in order. hexTotal is the total
\* of the 1d20, rolled only when unrest >= 10; the total of the 1d10 goes to the
\* chat alone and is not followed
adjustUnrestPosted(current, data, hexTotal) ==
    LET unrest == adjustedUnrest(current, data)
    IN  [rolls |->
            IF unrest >= 10
            THEN <<[count |-> 1, faces |-> 10],
                   [count |-> 1, faces |-> 20, total |-> hexTotal]>>
            ELSE <<>>,
         chat |->
            (IF envyOfTheWorld(current, data)
             THEN <<[title |-> "Ignoring Unrest increase"]>> ELSE <<>>)
            \o (IF unrest > 0
                THEN <<[title |-> "Gaining Unrest", total |-> newUnrest(current, data)]>>
                ELSE <<>>)
            \o (IF unrest >= 10 /\ hexTotal >= 11
                THEN <<[title |-> "You lose one hex"]>> ELSE <<>>)
            \o (IF unrest >= calculateAnarchy(current.feats, current.bonusFeats)
                THEN <<[title |-> "Kingdom falls into anarchy"]>> ELSE <<>>)]

\* what adjustUnrest awaits before its update, in order: each message and
\* roll is awaited, and each needs unrest > 0 or the "Envy of the World"
\* branch. The 1d20 is the roll that is followed; the message of the lost hex
\* is awaited if it came to 11
adjustUnrestAwaits(current, data) ==
    LET unrest == adjustedUnrest(current, data)
    IN  (IF envyOfTheWorld(current, data)
         THEN <<Awaited("ChatMessage.create")>> ELSE <<>>)
        \o (IF unrest > 0 THEN <<Awaited("ChatMessage.create")>> ELSE <<>>)
        \o (IF unrest >= 10
            THEN <<Awaited("Roll.roll"), Awaited("roll.toMessage"),
                   AwaitedRoll(RollTotals(1, 20)), Awaited("roll.toMessage"),
                   AwaitedIf("ChatMessage.create", 11)>>
            ELSE <<>>)
        \o (IF unrest >= calculateAnarchy(current.feats, current.bonusFeats)
            THEN <<Awaited("ChatMessage.create")>> ELSE <<>>)

\* adjustUnrest up to its first await; with nothing to post the update is
\* called at once
ClickAdjustUnrest ==
    LET current == kingdom
        data == settlements
        awaits == adjustUnrestAwaits(current, data)
    IN  IF awaits # <<>>
        THEN Clicked(clicks < MaxSteps,
                     Run("adjustUnrest", [current |-> current, data |-> data], awaits))
        ELSE Completed(MaxSteps, "adjustUnrest", current,
                       update([unrest |-> adjustedUnrest(current, data)]),
                       adjustUnrestPosted(current, data, 0))

\* adjustUnrest from its last message to the await of update
ResumeAdjustUnrest ==
    \E run \in Suspended("adjustUnrest") :
        LET current == run.read.current
            data == run.read.data
            unrest == adjustedUnrest(current, data)
            hexTotal == lastRolled(run.rolled)
        IN  Resumed(run, current, update([unrest |-> unrest]),
                    adjustUnrestPosted(current, data, hexTotal))

----------------------------------------------------------------------------
\* CheckForEvent.

\* calculateEventDC without the floor at 1
calculateEventDCNoFloor(turnsWithoutEvent) == 16 - (turnsWithoutEvent * 5)

calculateEventDC(turnsWithoutEvent) == Max(1, 16 - (turnsWithoutEvent * 5))

\* eventOccurs with a strict comparison
eventOccursStrict(total, dc) == total > dc

\* whether the 1d20 of checkForEvent makes an event occur
eventOccurs(total, dc) == total >= dc

\* the partial record checkForEvent hands to update
checkForEventUpdate(turnsWithoutEvent, total) ==
    IF eventOccurs(total, calculateEventDC(turnsWithoutEvent))
    THEN [turnsWithoutEvent |-> 0]
    ELSE [turnsWithoutEvent |-> turnsWithoutEvent + 1]

\* the roll and chat messages of checkForEvent
checkForEventPosted(turnsWithoutEvent, total) ==
    LET dc == calculateEventDC(turnsWithoutEvent)
    IN  [rolls |-> <<[count |-> 1, faces |-> 20, total |-> total, dc |-> dc]>>,
         chat |-> IF eventOccurs(total, dc)
                  THEN <<[title |-> "An event occurs, roll a Kingdom Event!"]>>
                  ELSE <<>>]

\* checkForEvent up to its first await (the 1d20), within a bound on its
\* clicks; the roll's message is awaited after it, and the event's message
\* if the roll came to the DC
ClickCheckForEventWithin(bound) ==
    LET turnsWithoutEvent == kingdom.turnsWithoutEvent
        dc == calculateEventDC(turnsWithoutEvent)
    IN  Clicked(clicks < bound, Run("checkForEvent",
                           [current |-> kingdom, turnsWithoutEvent |-> turnsWithoutEvent],
                           <<AwaitedRoll(RollTotals(1, 20)),
                             Awaited("roll.toMessage"),
                             AwaitedIf("ChatMessage.create", dc)>>))

ClickCheckForEvent == ClickCheckForEventWithin(MaxSteps)

\* the chat log, where a specification follows it: h.checks counts the checks
\* that have ended without the event's message since the last one that ended
\* with it
checkLogged(h, occurred) ==
    IF "checks" \in DOMAIN h
    THEN [h EXCEPT !.checks = IF occurred THEN 0 ELSE @ + 1]
    ELSE h

\* checkForEvent from its last message to the await of update
ResumeCheckForEvent ==
    \E run \in Suspended("checkForEvent") :
        LET turnsWithoutEvent == run.read.turnsWithoutEvent
            total == run.rolled[1]
        IN  /\ Finished(tasks (-) SetToBag({run}), "checkForEvent", run.read.current,
                        update(checkForEventUpdate(turnsWithoutEvent, total)),
                        checkForEventPosted(turnsWithoutEvent, total))
            /\ host' = checkLogged(host,
                                   eventOccurs(total, calculateEventDC(turnsWithoutEvent)))
            /\ UNCHANGED <<settlements, clicks>>

----------------------------------------------------------------------------
\* Initial states: the records and scenes the handlers are started from.

NoCommodities == [food |-> 0, luxuries |-> 0, ore |-> 0, lumber |-> 0, stone |-> 0]

\* a settlement scene that is neither overcrowded nor a secondary territory
Village ==
    [settlement |->
        [consumption |-> 1, storage |-> NoCommodities,
         leadershipActivityBonus |-> FALSE, unlockActivities |-> {}],
     scenedData |-> [overcrowded |-> FALSE, secondaryTerritory |-> FALSE]]

\* an overcrowded settlement scene with food and ore storage
Town ==
    [settlement |->
        [consumption |-> 2,
         storage |-> [food |-> 2, luxuries |-> 0, ore |-> 1, lumber |-> 0, stone |-> 0],
         leadershipActivityBonus |-> TRUE,
         unlockActivities |-> {"craft-luxuries"}],
     scenedData |-> [overcrowded |-> TRUE, secondaryTerritory |-> FALSE]]

\* a settlement scene in a secondary territory
Outpost ==
    [settlement |->
        [consumption |-> 0,
         storage |-> [food |-> 0, luxuries |-> 1, ore |-> 0, lumber |-> 3, stone |-> 2],
         leadershipActivityBonus |-> FALSE,
         unlockActivities |-> {"go-fishing"}],
     scenedData |-> [overcrowded |-> FALSE, secondaryTerritory |-> TRUE]]

SettlementKinds == {Village, Town, Outpost}

SettlementLists == UNION {[1..n -> SettlementKinds] : n \in 0..MaxSettlements}

InsiderTrading == [id |-> "Insider Trading"]

EndureAnarchy == [id |-> "Endure Anarchy"]

FeatLists == {<<>>, <<InsiderTrading>>, <<EndureAnarchy>>, <<EndureAnarchy, InsiderTrading>>}

DefaultKingdom ==
    [level |-> 5, size |-> 9, atWar |-> FALSE, unrest |-> 0, turnsWithoutEvent |-> 0,
     feats |-> <<>>, bonusFeats |-> <<>>,
     resourcePoints |-> [now |-> 0, next |-> 0],
     resourceDice |-> [now |-> 0, next |-> 0],
     consumption |-> [now |-> 3, next |-> 0, armies |-> 1],
     commodities |->
        [now |-> [food |-> 4, luxuries |-> 1, ore |-> 3, lumber |-> 2, stone |-> 0],
         next |-> NoCommodities],
     workSites |->
        [mines |-> [quantity |-> 1, resources |-> 0],
         lumberCamps |-> [quantity |-> 2, resources |-> 1],
         luxurySources |-> [quantity |-> 0, resources |-> 0]]]

\* kingdom sizes on both sides of the first threshold of the size table
Sizes == {9, 10}

\* records that differ in the three now/next ledgers
LedgerKingdoms ==
    {[DefaultKingdom EXCEPT
        !.resourcePoints = [now |-> rpNow, next |-> rpNext],
        !.resourceDice = [now |-> rdNow, next |-> rdNext],
        !.consumption = [now |-> cNow, next |-> cNext, armies |-> armies]] :
      rpNow \in {0, 1}, rpNext \in {0, 3}, rdNow \in {0, 2}, rdNext \in {0, 1},
      cNow \in {0, 3}, cNext \in {0, 2}, armies \in {0, 1}}

\* records that differ in the feats taken
FeatKingdoms ==
    {[DefaultKingdom EXCEPT
        !.feats = f, !.bonusFeats = b, !.resourceDice.now = rdNow, !.size = size] :
      f \in FeatLists, b \in FeatLists, rdNow \in {0, 2}, size \in Sizes}

CommodityStocks ==
    {NoCommodities,
     [food |-> 4, luxuries |-> 1, ore |-> 3, lumber |-> 2, stone |-> 0],
     [food |-> 1, luxuries |-> 5, ore |-> 2, lumber |-> 7, stone |-> 4]}

WorkSiteSets ==
    {DefaultKingdom.workSites,
     [mines |-> [quantity |-> 3, resources |-> 2],
      lumberCamps |-> [quantity |-> 0, resources |-> 0],
      luxurySources |-> [quantity |-> 4, resources |-> 1]]}

\* records that differ in the commodity stocks and the work sites
CommodityKingdoms ==
    {[DefaultKingdom EXCEPT
        !.commodities = [now |-> now, next |-> next],
        !.workSites = sites, !.size = size] :
      now \in CommodityStocks, next \in CommodityStocks,
      sites \in WorkSiteSets, size \in Sizes}

\* records that differ in what adjustUnrest reads
UnrestKingdoms ==
    {[DefaultKingdom EXCEPT
        !.level = level, !.atWar = atWar, !.unrest = unrest, !.bonusFeats = b] :
      level \in {19, 20}, atWar \in BOOLEAN, unrest \in {0, 9, 19, 23},
      b \in {<<>>, <<EndureAnarchy>>}}

\* records that differ in the event counter
EventKingdoms ==
    {[DefaultKingdom EXCEPT !.turnsWithoutEvent = t] : t \in 0..MaxTurns}


\* the host when the handlers are clicked: the kingdom sheet is on screen,
\* rendered once, and the structure browser is open on the stored record
SheetShown(k) ==
    render([hooks |-> <<>>, bound |-> 0, sheet |-> "none", browser |-> k])

\* nothing has been clicked yet
StartIn(k, list, h) ==
    /\ kingdom = k
    /\ settlements = list
    /\ pre = k
    /\ prior = k
    /\ step = "init"
    /\ out = [rolls |-> <<>>, chat |-> <<>>]
    /\ clicks = 0
    /\ tasks = NoTasks
    /\ host = h

Start(k, list) == StartIn(k, list, SheetShown(k))

\* the economy handlers, from records that differ in what they read
InitEconomy ==
    \/ \E k \in LedgerKingdoms \cup FeatKingdoms : Start(k, <<Town>>)
    \/ \E k \in CommodityKingdoms, list \in SettlementLists : Start(k, list)

NextEconomy ==
    \/ Idle /\ ClickEndTurn
    \/ ResumeEndTurn
    \/ Idle /\ ClickCollectResources
    \/ ResumeCollectResources
    \/ Idle /\ ClickPayConsumption
    \/ ResumePayConsumption
    \/ ResumeUpdate
    \/ ResumeAwait

SpecEconomy == InitEconomy /\ [][NextEconomy]_vars

\* adjustUnrest, from records and scenes that differ in what it reads
InitUnrest == \E k \in UnrestKingdoms, list \in SettlementLists : Start(k, list)

NextUnrest ==
    \/ Idle /\ ClickAdjustUnrest
    \/ ResumeAdjustUnrest
    \/ ResumeUpdate
    \/ ResumeAwait

SpecUnrest == InitUnrest /\ [][NextUnrest]_vars

\* checkForEvent, from every stored counter up to MaxTurns
InitEvent == \E k \in EventKingdoms : Start(k, <<Town>>)

NextEvent ==
    \/ Idle /\ ClickCheckForEvent
    \/ ResumeCheckForEvent
    \/ ResumeUpdate
    \/ ResumeAwait

SpecEvent == InitEvent /\ [][NextEvent]_vars

\* collectResources and payConsumption, clicked in either order
NextAsync ==
    \/ ClickCollectResources
    \/ ResumeCollectResources
    \/ ClickPayConsumption
    \/ ResumePayConsumption
    \/ ResumeUpdate
    \/ ResumeAwait

SpecAsync == InitEconomy /\ [][NextAsync]_vars

----------------------------------------------------------------------------
\* What the claims are stated with: sums over the settlement scenes, the feats
\* held, and the last chat message and roll.

RECURSIVE StoredIn(_, _)
StoredIn(list, c) ==
    IF list = <<>> THEN 0
    ELSE Head(list).settlement.storage[c] + StoredIn(Tail(list), c)

StoredFor(c) == StoredIn(settlements, c)

RECURSIVE ConsumedIn(_)
ConsumedIn(list) ==
    IF list = <<>> THEN 0
    ELSE Head(list).settlement.consumption + ConsumedIn(Tail(list))

SettlementConsumption == ConsumedIn(settlements)

\* kingdom-size base capacity plus the storage summed over all settlements
CapacityOf(k, c) == getSizeData(k.size).commodityCapacity + StoredFor(c)

FeatIds(k) ==
    {k.feats[i].id : i \in 1..Len(k.feats)}
        \cup {k.bonusFeats[i].id : i \in 1..Len(k.bonusFeats)}

Overcrowded == {i \in 1..Len(settlements) : settlements[i].scenedData.overcrowded}

Secondary == {i \in 1..Len(settlements) : settlements[i].scenedData.secondaryTerritory}

Posted(title) == \E i \in 1..Len(out.chat) : out.chat[i].title = title

\* every top-level field of the record but those named is as it was stored
\* just before the handler saved
OnlyChanged(fields) ==
    /\ DOMAIN kingdom = DOMAIN prior
    /\ \A f \in DOMAIN kingdom \ fields : kingdom[f] = prior[f]

----------------------------------------------------------------------------
\* C1: EndTurn commits, for each of resourceDice, resourcePoints and
\* consumption, now' = that ledger's own next from before the step and
\* next' = 0, with consumption.armies carried over.
C1_EndTurnCommitsLedgers ==
    step = "endTurn" =>
        /\ \A l \in {"resourceDice", "resourcePoints", "consumption"} :
                /\ kingdom[l].now = pre[l].next
                /\ kingdom[l].next = 0
        /\ kingdom.consumption.armies = pre.consumption.armies

\* C2: EndTurn commits, for each commodity c, now[c]' = min(capacity[c],
\* now[c] + next[c]) and next[c]' = 0, capacity[c] being the kingdom-size base
\* capacity plus the storage for c summed over all settlements.
C2_EndTurnCommodities ==
    step = "endTurn" =>
        \A c \in Commodity :
            /\ kingdom.commodities.now[c] =
                    Min(CapacityOf(pre, c),
                        pre.commodities.now[c] + pre.commodities.next[c])
            /\ kingdom.commodities.next[c] = 0

\* an EndTurn that clamped one commodity to a capacity raised by settlement
\* storage and added another one's next column below its capacity
C2_Witness ==
    /\ step = "endTurn"
    /\ \E c \in Commodity :
            /\ StoredFor(c) > 0
            /\ pre.commodities.now[c] + pre.commodities.next[c] > CapacityOf(pre, c)
            /\ kingdom.commodities.now[c] = CapacityOf(pre, c)
    /\ \E c \in Commodity :
            /\ pre.commodities.next[c] > 0
            /\ pre.commodities.now[c] > 0
            /\ kingdom.commodities.now[c] < CapacityOf(pre, c)

\* C3: CollectResources rolls n dice of the size-determined die, n = base
\* resource dice + resourceDice.now + (1 if Insider Trading is among feats or
\* bonusFeats), then commits resourcePoints.now' = resourcePoints.now + total
\* and resourceDice.now' = 0, leaving both next values unchanged.
C3_CollectRollsAndCommits ==
    step = "collectResources" =>
        LET n == getLevelData(pre.size).resourceDice + pre.resourceDice.now
                    + (IF "Insider Trading" \in FeatIds(pre) THEN 1 ELSE 0)
            faces == getSizeData(pre.size).resourceDieSize
        IN  /\ Len(out.rolls) = 1
            /\ out.rolls[1].count = n
            /\ out.rolls[1].faces = faces
            /\ out.rolls[1].total \in n..(n * faces)
            /\ kingdom.resourcePoints.now = pre.resourcePoints.now + out.rolls[1].total
            /\ kingdom.resourceDice.now = 0
            /\ kingdom.resourcePoints.next = pre.resourcePoints.next
            /\ kingdom.resourceDice.next = pre.resourceDice.next

\* a CollectResources with stored dice and Insider Trading held as a bonus feat only
C3_Witness ==
    /\ step = "collectResources"
    /\ pre.resourceDice.now > 0
    /\ ~hasFeat(pre.feats, "Insider Trading")
    /\ hasFeat(pre.bonusFeats, "Insider Trading")
    /\ kingdom.resourcePoints.now > pre.resourcePoints.now
    /\ kingdom.resourceDice.now = 0

\* C4: CollectResources clamps each yielded commodity (ore, lumber, luxuries,
\* stone) to the capacity and adds it to the stock already held; food and the
\* whole next column are unchanged.
C4_CollectAddsToStock ==
    step = "collectResources" =>
        LET yield == calculateCommoditiesThisTurn(pre)
        IN  /\ \A c \in {"ore", "lumber", "luxuries", "stone"} :
                    kingdom.commodities.now[c] =
                        pre.commodities.now[c] + Min(CapacityOf(pre, c), yield[c])
            /\ kingdom.commodities.now.food = pre.commodities.now.food
            /\ kingdom.commodities.next = pre.commodities.next

\* C5: PayConsumption computes total = armies + consumption.now + summed
\* settlement consumption, commits food' = max(0, food - total), that is food
\* minus min(food, total), and reports the shortfall max(0, total - food) with a
\* price of 5 resource points per missing unit (non-negative quantities).
C5_PayConsumption ==
    step = "payConsumption" =>
        LET total == pre.consumption.armies + pre.consumption.now + SettlementConsumption
            food == pre.commodities.now.food
            shortfall == Max(0, total - food)
        IN  /\ kingdom.commodities.now.food = Max(0, food - total)
            /\ kingdom.commodities.now.food = food - Min(food, total)
            /\ shortfall > 0 =>
                    /\ Len(out.chat) = 1
                    /\ out.chat[1].missingShown
                    /\ out.chat[1].missing = shortfall
                    /\ out.chat[1].pay = 5 * shortfall
            /\ shortfall = 0 => \A i \in 1..Len(out.chat) : ~out.chat[i].missingShown

\* the scenario consumption.now = 3, armies = 1, settlement consumption 2, food 4
C5_Witness ==
    /\ step = "payConsumption"
    /\ pre.consumption.now = 3
    /\ pre.consumption.armies = 1
    /\ SettlementConsumption = 2
    /\ pre.commodities.now.food = 4
    /\ kingdom.commodities.now.food = 0
    /\ out.chat[1].reducing = 4
    /\ out.chat[1].missing = 2
    /\ out.chat[1].pay = 10

----------------------------------------------------------------------------
\* C6: below level 20, AdjustUnrest commits unrest' = unrest + (1 if at war)
\* + the number of overcrowded settlements + (1 if at least one settlement is a
\* secondary territory); several secondary territories still add only 1.
C6_AdjustUnrestBelow20 ==
    (step = "adjustUnrest" /\ pre.level < 20) =>
        kingdom.unrest =
            pre.unrest + (IF pre.atWar THEN 1 ELSE 0) + Cardinality(Overcrowded)
                + (IF Secondary # {} THEN 1 ELSE 0)

\* an AdjustUnrest below level 20 at war with two secondary territories
C6_Witness ==
    /\ step = "adjustUnrest"
    /\ pre.level < 20
    /\ pre.atWar
    /\ Cardinality(Secondary) >= 2
    /\ kingdom.unrest = pre.unrest + 2

\* C7: at level >= 20 AdjustUnrest ignores the unrest increase only: the unrest
\* stored before the step is what remains stored after it.
C7_Level20KeepsStoredUnrest ==
    (step = "adjustUnrest" /\ pre.level >= 20) => kingdom.unrest = pre.unrest

\* C8: CheckForEvent rolls 1d20 against the event DC: on roll >= DC it commits
\* turnsWithoutEvent' = 0 and signals an event; otherwise it commits
\* turnsWithoutEvent' = turnsWithoutEvent + 1 and signals nothing; no other
\* field of the record changes.
C8_CheckForEvent ==
    step = "checkForEvent" =>
        LET roll == out.rolls[1]
            dc == IF 16 - 5 * pre.turnsWithoutEvent > 1
                  THEN 16 - 5 * pre.turnsWithoutEvent ELSE 1
        IN  /\ Len(out.rolls) = 1
            /\ roll.count = 1
            /\ roll.faces = 20
            /\ roll.total \in 1..20
            /\ roll.total >= dc =>
                    /\ kingdom.turnsWithoutEvent = 0
                    /\ Posted("An event occurs, roll a Kingdom Event!")
            /\ roll.total < dc =>
                    /\ kingdom.turnsWithoutEvent = pre.turnsWithoutEvent + 1
                    /\ out.chat = <<>>
            /\ OnlyChanged({"turnsWithoutEvent"})

\* a check that hit the DC exactly and reset a counter that was not 0
C8_Witness ==
    /\ step = "checkForEvent"
    /\ pre.turnsWithoutEvent > 0
    /\ out.rolls[1].total = out.rolls[1].dc
    /\ out.rolls[1].dc > 1
    /\ kingdom.turnsWithoutEvent = 0
    /\ Posted("An event occurs, roll a Kingdom Event!")

\* C9: the event DC is max(1, 16 - 5 * turnsWithoutEvent): 16, 11, 6, 1 for
\* 0, 1, 2, 3 and exactly 1 for every larger count.
C9_EventDC ==
    step = "checkForEvent" =>
        LET t == pre.turnsWithoutEvent
            dc == out.rolls[1].dc
        IN  /\ t >= 0
            /\ t = 0 => dc = 16
            /\ t = 1 => dc = 11
            /\ t = 2 => dc = 6
            /\ t >= 3 => dc = 1
            /\ dc >= 1

\* a check made with a counter above 3
C9_Witness ==
    /\ step = "checkForEvent"
    /\ pre.turnsWithoutEvent > 3
    /\ out.rolls[1].dc = 1

----------------------------------------------------------------------------
\* the record after collectResources alone, run to completion on k
CollectAlone(k, rolledPoints) ==
    saveKingdom(k, collectResourcesUpdate(k, getCapacity(getSizeData(k.size)),
                                          rolledPoints))

\* the record after payConsumption alone, run to completion on k
PayAlone(k) == payConsumptionSaved(k, k, settlements)

\* C10: no two turn steps interleave on the record: when CollectResources and
\* PayConsumption are triggered one after the other, no commit of one falls
\* between the other's read of the record and its commit, so each commit
\* leaves what the step run alone on the record stored just before gives,
\* and no committed change is lost.
C10_StepsDoNotInterleave ==
    /\ step \in {"collectResources", "payConsumption"} => pre = prior
    /\ step = "collectResources" => kingdom = CollectAlone(prior, out.rolls[1].total)
    /\ step = "payConsumption" => kingdom = PayAlone(prior)

----------------------------------------------------------------------------
\* The resource resolver (src/src/migrations.ts, kingdom/resources): the
\* functions behind the chat buttons that gain or lose a resource.

\* largest stock, delta and limit handed to the resolver's pure functions
MaxValue == 3
\* resource-button clicks explored per run
MaxUpdates == 1

\* JavaScript's NaN, kept apart from every number the model computes
NaN == -1000000

\* a + b, a - b and Math.max(a, b) on numbers that may be NaN
plus(a, b) == IF a = NaN \/ b = NaN THEN NaN ELSE a + b

minus(a, b) == IF a = NaN \/ b = NaN THEN NaN ELSE a - b

mathMax(a, b) == IF a = NaN \/ b = NaN THEN NaN ELSE Max(a, b)

\* value < 0, false for NaN
isNegative(a) == a # NaN /\ a < 0

\* an optional number (limit?: number): <<>> is undefined, <<n>> is the number n
undefined == <<>>

defined(n) == <<n>>

ResourceMode == {"gain", "lose"}

ResourceTurn == {"now", "next"}

Ruin == {"crime", "decay", "strife", "corruption"}

RolledResources ==
    Commodity \cup Ruin
        \cup {"unrest", "resource-dice", "resource-points", "roll-resource-dice"}

newValueAlwaysGain(currentValue, newValue, mode) == plus(currentValue, newValue)

\* the value calculateNewValue computes before the limit is applied
newValueUnlimited(currentValue, newValue, mode) ==
    IF mode = "gain" THEN plus(currentValue, newValue) ELSE minus(currentValue, newValue)

limitedValueAsCeiling(limit, value) ==
    IF limit = undefined THEN value
    ELSE IF value = NaN THEN NaN
    ELSE Min(limit[1], value)

\* limit === undefined ? value : Math.max(limit, value)
limitedValue(limit, value) ==
    IF limit = undefined THEN value ELSE mathMax(limit[1], value)

missingShownAnyTurn(value, turn) == IF isNegative(value) THEN -value ELSE 0

\* the missing amount put in missingMessage; 0 when the message is empty
missingShown(value, turn) ==
    LET missing == IF isNegative(value) THEN -value ELSE 0
    IN  IF missing > 0 /\ turn = "now" THEN missing ELSE 0

\* calculateNewValue: the message is kept as the parts it is formatted from
calculateNewValue(args) ==
    LET value == newValueUnlimited(args.currentValue, args.newValue, args.mode)
        limited == limitedValue(args.limit, value)
        shown == missingShown(value, args.turn)
    IN  [value |-> limited,
         message |->
            [verb |-> IF args.mode = "gain" THEN "Gaining" ELSE "Losing",
             amount |-> limited,
             label |-> args.type,
             turnLabel |-> IF args.turn = "now" THEN "this turn" ELSE "next turn"],
         missingMessage |->
            IF shown > 0 THEN <<[missing |-> shown, label |-> args.type]>> ELSE <<>>]

\* throw Error(`Unhandled type ${type}`)
unhandledType == [threw |-> TRUE, error |-> "Unhandled type"]

returned(v) == [threw |-> FALSE, value |-> v]

getCurrentValueLenient(k, type, turn) ==
    IF type \in Commodity THEN returned(k.commodities[turn][type])
    ELSE IF type = "unrest" THEN returned(k.unrest)
    ELSE IF type = "resource-dice" THEN returned(k.resourceDice[turn])
    ELSE IF type \in {"resource-points", "roll-resource-dice"}
    THEN returned(k.resourcePoints[turn])
    ELSE IF type \in Ruin THEN returned(k.ruin[type].value)
    ELSE returned(0)

getCurrentValueRollsReadDice(k, type, turn) ==
    IF type \in Commodity THEN returned(k.commodities[turn][type])
    ELSE IF type = "unrest" THEN returned(k.unrest)
    ELSE IF type \in {"resource-dice", "roll-resource-dice"}
    THEN returned(k.resourceDice[turn])
    ELSE IF type = "resource-points" THEN returned(k.resourcePoints[turn])
    ELSE IF type \in Ruin THEN returned(k.ruin[type].value)
    ELSE unhandledType

getCurrentValue(k, type, turn) ==
    IF type \in Commodity THEN returned(k.commodities[turn][type])
    ELSE IF type = "unrest" THEN returned(k.unrest)
    ELSE IF type = "resource-dice" THEN returned(k.resourceDice[turn])
    ELSE IF type \in {"resource-points", "roll-resource-dice"}
    THEN returned(k.resourcePoints[turn])
    ELSE IF type \in Ruin THEN returned(k.ruin[type].value)
    ELSE unhandledType

getLimitAnyTurn(k, type, turn) ==
    IF type \in Commodity
    THEN defined(getCapacity(getSizeData(k.size))[type])
    ELSE undefined

getLimit(k, type, turn) ==
    IF turn = "next" /\ type \in Commodity
    THEN defined(getCapacity(getSizeData(k.size))[type])
    ELSE undefined

createUpdate(k, type, turn, value) ==
    IF type \in {"roll-resource-dice", "resource-points"}
    THEN returned([resourcePoints |-> [k.resourcePoints EXCEPT ![turn] = value]])
    ELSE IF type = "resource-dice"
    THEN returned([resourceDice |-> [k.resourceDice EXCEPT ![turn] = value]])
    ELSE IF type = "unrest"
    THEN returned([unrest |-> value])
    ELSE IF type \in Ruin
    THEN returned([ruin |->
            [k.ruin EXCEPT ![type] = [k.ruin[type] EXCEPT !.value = value]]])
    ELSE IF type \in Commodity
    THEN returned([commodities |->
            [k.commodities EXCEPT
                ![turn] = [k.commodities[turn] EXCEPT ![type] = value]]])
    ELSE unhandledType

\* evaluateValue: the button's value is a string, kept as its characters.

Digits == {"0", "1", "2", "3", "4", "5", "6", "7", "8", "9"}

digitValue(c) ==
    CASE c = "0" -> 0 [] c = "1" -> 1 [] c = "2" -> 2 [] c = "3" -> 3 [] c = "4" -> 4
      [] c = "5" -> 5 [] c = "6" -> 6 [] c = "7" -> 7 [] c = "8" -> 8 [] c = "9" -> 9

\* the longest prefix of digits of a string
RECURSIVE digitPrefix(_)
digitPrefix(chars) ==
    IF chars = <<>> \/ Head(chars) \notin Digits THEN <<>>
    ELSE <<Head(chars)>> \o digitPrefix(Tail(chars))

\* the number a string of digits denotes
RECURSIVE digitsToNumber(_)
digitsToNumber(digits) ==
    IF digits = <<>> THEN 0
    ELSE 10 * digitsToNumber(SubSeq(digits, 1, Len(digits) - 1))
            + digitValue(digits[Len(digits)])

\* the white space parseInt skips (StrWhiteSpaceChar): the tab, line feed,
\* form feed, carriage return and space, and, each written as its code point,
\* the vertical tab, the no-break space, the byte order mark, the space
\* separators and the line and paragraph separators
WhiteSpace ==
    {"\t", "\n", "\f", "\r", " ", "U+000B", "U+00A0", "U+FEFF",
     "U+1680", "U+2000", "U+2001", "U+2002", "U+2003", "U+2004", "U+2005", "U+2006",
     "U+2007", "U+2008", "U+2009", "U+200A", "U+202F", "U+205F", "U+3000",
     "U+2028", "U+2029"}

\* a string without its leading white space
RECURSIVE trimStart(_)
trimStart(chars) ==
    IF chars = <<>> \/ Head(chars) \notin WhiteSpace THEN chars
    ELSE trimStart(Tail(chars))

\* parseInt(value, 10): leading white space is skipped; then an optional sign
\* and the digits that follow it, NaN when there are none; what comes after
\* the digits is ignored
parseInt(chars) ==
    LET trimmed == trimStart(chars)
        signed == trimmed # <<>> /\ Head(trimmed) \in {"-", "+"}
        digits == digitPrefix(IF signed THEN Tail(trimmed) ELSE trimmed)
    IN  IF digits = <<>> THEN NaN
        ELSE IF signed /\ Head(trimmed) = "-" THEN -digitsToNumber(digits)
        ELSE digitsToNumber(digits)

\* value.includes('d')
includes(chars, c) == \E i \in 1..Len(chars) : chars[i] = c

\* String(n) of a positive number
RECURSIVE numberToDigits(_)
numberToDigits(n) ==
    LET last == CASE n % 10 = 0 -> "0" [] n % 10 = 1 -> "1" [] n % 10 = 2 -> "2"
                  [] n % 10 = 3 -> "3" [] n % 10 = 4 -> "4" [] n % 10 = 5 -> "5"
                  [] n % 10 = 6 -> "6" [] n % 10 = 7 -> "7" [] n % 10 = 8 -> "8"
                  [] n % 10 = 9 -> "9"
    IN  IF n < 10 THEN <<last>> ELSE numberToDigits(n \div 10) \o <<last>>

\* the Dice Port on a formula: `new Roll(formula).roll()` accepts <count>d<faces>
\* and rejects any other string the model hands it
diceFormula(chars) ==
    LET count == digitPrefix(chars)
        rest == SubSeq(chars, Len(count) + 1, Len(chars))
        faces == IF rest = <<>> THEN <<>> ELSE digitPrefix(Tail(rest))
    IN  IF /\ count # <<>>
           /\ rest # <<>>
           /\ Head(rest) = "d"
           /\ faces # <<>>
           /\ Len(rest) = Len(faces) + 1
        THEN [threw |-> FALSE, count |-> digitsToNumber(count),
              faces |-> digitsToNumber(faces)]
        ELSE [threw |-> TRUE, error |-> "Roll"]

\* whether evaluateValue rolls dice for the button's value
rollsDice(resources, value) == resources = "roll-resource-dice" \/ includes(value, "d")

\* the formula evaluateValue rolls
evaluateFormula(k, resources, value) ==
    IF resources = "roll-resource-dice"
    THEN value \o <<"d">> \o numberToDigits(getSizeData(k.size).resourceDieSize)
    ELSE value

\* the outcomes of evaluateValue: it throws, or returns a number after the
\* roll (if any) was sent to chat
evaluateValue(k, resources, value) ==
    LET dice == diceFormula(evaluateFormula(k, resources, value))
    IN  IF ~rollsDice(resources, value)
        THEN {[threw |-> FALSE, value |-> parseInt(value), rolls |-> <<>>]}
        ELSE IF dice.threw THEN {[threw |-> TRUE, error |-> "Roll", rolls |-> <<>>]}
        ELSE {[threw |-> FALSE, value |-> total,
               rolls |-> <<[count |-> dice.count, faces |-> dice.faces, total |-> total,
                            flavor |-> IF resources = "roll-resource-dice"
                                       THEN "Rolling Resource Dice" ELSE resources]>>] :
                total \in RollTotals(dice.count, dice.faces)}

\* updateResources from its first await to the call of saveKingdom: the
\* partial record it hands over and what it posts for one outcome of
\* evaluateValue, from the record k it had read. A throw ends the handler
\* where it happens: what was sent to chat before stays sent, and nothing
\* after it runs.
updateResourcesOutcome(k, button, evaluated) ==
    LET current == getCurrentValue(k, button.type, button.turn)
        limit == getLimit(k, button.type, button.turn)
        result == calculateNewValue(
                      [mode |-> button.mode, limit |-> limit, turn |-> button.turn,
                       newValue |-> evaluated.value, type |-> button.type,
                       currentValue |-> current.value])
        partial == createUpdate(k, button.type, button.turn, result.value)
        failed(error, rolls) ==
            [saves |-> FALSE,
             posted |-> [button |-> button, evaluated |-> evaluated, rolls |-> rolls,
                         chat |-> <<>>, error |-> error]]
    IN  IF evaluated.threw THEN failed(evaluated.error, <<>>)
        ELSE IF current.threw THEN failed(current.error, evaluated.rolls)
        ELSE IF partial.threw
        THEN [saves |-> FALSE,
              posted |-> [button |-> button, evaluated |-> evaluated,
                          rolls |-> evaluated.rolls,
                          chat |-> <<result.message>> \o result.missingMessage,
                          error |-> partial.error]]
        ELSE [saves |-> TRUE, partial |-> partial.value,
              posted |-> [button |-> button, evaluated |-> evaluated,
                          rolls |-> evaluated.rolls,
                          chat |-> <<result.message>> \o result.missingMessage,
                          error |-> "none"]]

\* a tag no branch of the resolver handles
UnhandledTypes == {"fame"}

ButtonTypes == RolledResources \cup UnhandledTypes

\* data-value of the buttons: numbers, a dice formula, and malformed values
Numerals == {<<"1">>, <<"2">>, <<" ", "1">>}

ButtonValues(type) ==
    Numerals \cup {<<"x">>}
        \cup (IF type = "roll-resource-dice" THEN {} ELSE {<<"1", "d", "2">>, <<"1", "d">>})

Buttons ==
    UNION {[type : {type}, mode : ResourceMode, turn : ResourceTurn,
            value : ButtonValues(type)] : type \in ButtonTypes}

\* what evaluateValue awaits: the roll and its message where it rolls dice;
\* updateResources awaits evaluateValue itself, which has then returned or
\* thrown
evaluateValueAwaits(k, resources, value) ==
    LET rolling == {e \in evaluateValue(k, resources, value) : e.rolls # <<>>}
    IN  IF rolling = {} THEN <<Awaited("evaluateValue")>>
        ELSE <<AwaitedRoll({e.rolls[1].total : e \in rolling}),
               Awaited("roll.toMessage")>>

\* the outcome of evaluateValue with the total its roll has settled with
evaluatedValue(k, resources, value, rolled) ==
    CHOOSE e \in evaluateValue(k, resources, value) :
        e.rolls = <<>> \/ e.rolls[1].total = lastRolled(rolled)

\* updateResources up to its first await (in evaluateValue): the button and
\* the record are read
ClickUpdateResourcesWithin(bound, buttons) ==
    \E button \in buttons :
        Clicked(clicks < bound, Run("updateResources", [kingdom |-> kingdom, button |-> button],
                           evaluateValueAwaits(kingdom, button.type, button.value)))

\* the runs of updateResources suspended on the last call they await, in
\* evaluateValue (not yet evaluated) or after it
UpdatingResources(evaluated) ==
    {run \in Suspended("updateResources") : ("outcome" \in DOMAIN run.read) = evaluated}

\* updateResources from evaluateValue to the await of its first chat message,
\* or to the throw that ends it: the current value and the limit are read and
\* the new value is calculated
ResumeUpdateResources ==
    \E run \in UpdatingResources(FALSE) :
        LET k == run.read.kingdom
            button == run.read.button
            rest == tasks (-) SetToBag({run})
            evaluated == evaluatedValue(k, button.type, button.value, run.rolled)
            outcome == updateResourcesOutcome(k, button, evaluated)
        IN  /\ IF outcome.posted.chat = <<>>
               THEN Returned(rest, "updateResources", k, outcome.posted)
               ELSE /\ tasks' = rest (+) SetToBag({
                                    [run EXCEPT
                                        !.read = [kingdom |-> k, button |-> button,
                                                  outcome |-> outcome],
                                        !.calls = [i \in 1..Len(outcome.posted.chat) |->
                                                      Awaited("ChatMessage.create")]]})
                    /\ UNCHANGED <<kingdom, pre, prior, step, out>>
            /\ UNCHANGED <<settlements, host, clicks>>

\* updateResources from its last chat message to the await of saveKingdom, or
\* to the throw of createUpdate that ends it
PostUpdateResources ==
    \E run \in UpdatingResources(TRUE) :
        LET k == run.read.kingdom
            outcome == run.read.outcome
            rest == tasks (-) SetToBag({run})
        IN  /\ IF outcome.saves
               THEN SetFlagCalled(rest, "saveKingdom", "updateResources", k,
                                  outcome.partial, outcome.posted)
               ELSE Returned(rest, "updateResources", k, outcome.posted)
            /\ UNCHANGED <<settlements, host, clicks>>

\* updateResources from the await of saveKingdom to its end: the save is
\* settled; the sheet is not rendered
SaveUpdateResources ==
    \E run \in Saving("saveKingdom") :
        /\ SetFlagSettled(run)
        /\ tasks' = tasks (-) SetToBag({run})
        /\ UNCHANGED <<settlements, host, clicks>>

\* the buttons clicked: one tag or more for each branch of the resolver
ClickedButtons ==
    {button \in Buttons :
        button.type \in {"food", "lumber", "strife", "unrest", "resource-dice",
                         "resource-points", "roll-resource-dice"} \cup UnhandledTypes}

ClickUpdateResources == ClickUpdateResourcesWithin(MaxUpdates, ClickedButtons)

\* the records the resolver is given: with the ruin block, and differing in
\* the stocks and the unrest it reads
NoRuin == [value |-> 0, penalty |-> 0, threshold |-> 10]

WithRuin(k) ==
    [f \in DOMAIN k \cup {"ruin"} |->
        IF f = "ruin"
        THEN [crime |-> [NoRuin EXCEPT !.value = 1], decay |-> NoRuin,
              strife |-> [NoRuin EXCEPT !.value = 2], corruption |-> NoRuin]
        ELSE k[f]]

ResourceKingdoms ==
    {WithRuin([DefaultKingdom EXCEPT
                !.commodities = stock, !.unrest = unrest, !.size = size,
                !.resourcePoints = [now |-> 1, next |-> 2]]) :
        stock \in {DefaultKingdom.commodities,
                   [now |-> NoCommodities, next |-> DefaultKingdom.commodities.now]},
        unrest \in {0, 2}, size \in Sizes}

\* the resource buttons, from the records of the smaller size
InitResources == \E k \in {r \in ResourceKingdoms : r.size = 9} : Start(k, <<Town>>)

NextResources ==
    \/ Idle /\ ClickUpdateResources
    \/ ResumeUpdateResources
    \/ PostUpdateResources
    \/ SaveUpdateResources
    \/ ResumeAwait

SpecResources == InitResources /\ [][NextResources]_vars

----------------------------------------------------------------------------
\* The resolver's pure functions, each applied once to inputs drawn from
\* bounded sets; `out` keeps the arguments and the result.

Values == 0..MaxValue

Limits == {undefined} \cup {defined(n) : n \in Values}

Called(name, saved, call) ==
    /\ clicks' = clicks + 1
    /\ kingdom' = saved
    /\ pre' = kingdom
    /\ prior' = kingdom
    /\ step' = name
    /\ out' = call
    /\ UNCHANGED <<settlements, tasks, host>>

CalculateNewValue ==
    /\ step = "init"
    /\ \E args \in [currentValue : Values, newValue : Values, type : RolledResources,
                     turn : ResourceTurn, mode : ResourceMode, limit : Limits] :
        Called("calculateNewValue", kingdom,
               [args |-> args, result |-> calculateNewValue(args)])

GetLimit ==
    /\ step = "init"
    /\ \E type \in ButtonTypes, turn \in ResourceTurn :
        Called("getLimit", kingdom,
               [args |-> [type |-> type, turn |-> turn],
                result |-> getLimit(kingdom, type, turn)])

\* createUpdate, its result saved as the persistence collaborator saves it,
\* and getCurrentValue on the saved record
CreateUpdate ==
    /\ step = "init"
    /\ \E type \in ButtonTypes, turn \in ResourceTurn, value \in Values :
        LET partial == createUpdate(kingdom, type, turn, value)
            saved == IF partial.threw THEN kingdom ELSE saveKingdom(kingdom, partial.value)
        IN  Called("createUpdate", saved,
                   [args |-> [type |-> type, turn |-> turn, value |-> value],
                    result |-> partial,
                    read |-> [t \in ResourceTurn |-> getCurrentValue(saved, type, t)]])

InitResolver ==
    \E k \in ResourceKingdoms, list \in {<<>>, <<Town>>, <<Town, Outpost>>} : Start(k, list)

NextResolver ==
    \/ CalculateNewValue
    \/ GetLimit
    \/ CreateUpdate

SpecResolver == InitResolver /\ [][NextResolver]_vars

----------------------------------------------------------------------------
\* EndTurn run again and again, with nothing else in between.

NextEndTurn ==
    \/ Idle /\ ClickEndTurn
    \/ ResumeEndTurn
    \/ ResumeUpdate

SpecEndTurn == InitEconomy /\ [][NextEndTurn]_vars

----------------------------------------------------------------------------
\* C11: no step is partially applied: when the value of a resource button is
\* malformed (neither a number nor a dice formula), updateResources ends with
\* an error and the persisted record is exactly what it was before the click.

AllDigits(chars) == chars # <<>> /\ digitPrefix(chars) = chars

WellFormed(button) ==
    \/ AllDigits(trimStart(button.value))
    \/ button.type # "roll-resource-dice" /\ ~diceFormula(button.value).threw

C11_NoPartialStep ==
    step = "updateResources" /\ ~WellFormed(out.button)
        => out.error # "none" /\ kingdom = prior

\* an EndTurn has ended that ran, from its click to its save, on the record
\* an earlier EndTurn had left
SecondEndTurnInARow ==
    /\ step = "endTurn"
    /\ clicks >= 2
    /\ tasks = NoTasks
    /\ pre = prior

\* C12 as the spec words it: a second EndTurn in a row leaves every now value
\* (the three ledgers and the five commodities) as the first one left it.
C12_EndTurnIdempotent ==
    SecondEndTurnInARow =>
        /\ kingdom.commodities.now = pre.commodities.now
        /\ kingdom.resourceDice.now = pre.resourceDice.now
        /\ kingdom.resourcePoints.now = pre.resourcePoints.now
        /\ kingdom.consumption.now = pre.consumption.now

\* C12, amended: a second EndTurn in a row (unchanged capacities, no write to
\* a next column in between) leaves the now value of the five commodities as
\* the first one left it, while the now values of resourceDice,
\* resourcePoints and consumption are replaced by their zeroed next column.
C12_EndTurnIdempotentOnCommodities ==
    SecondEndTurnInARow =>
        /\ kingdom.commodities.now = pre.commodities.now
        /\ kingdom.commodities.next = NoCommodities
        /\ kingdom.resourceDice = [now |-> 0, next |-> 0]
        /\ kingdom.resourcePoints = [now |-> 0, next |-> 0]
        /\ kingdom.consumption.now = 0

\* a second EndTurn after a first one that moved stock and points from next to now
C12_Witness ==
    /\ SecondEndTurnInARow
    /\ pre.resourcePoints.now > 0
    /\ pre.consumption.now > 0
    /\ \E c \in Commodity : pre.commodities.now[c] > 0
    /\ kingdom.commodities.now = pre.commodities.now

----------------------------------------------------------------------------
\* C13: with no limit given, calculateNewValue returns current + delta in
\* gain mode and current - delta in lose mode, for all non-negative current
\* and delta and for both turn columns.
C13_UnlimitedValue ==
    step = "calculateNewValue" /\ out.args.limit = undefined
        => out.result.value =
              IF out.args.mode = "gain"
              THEN out.args.currentValue + out.args.newValue
              ELSE out.args.currentValue - out.args.newValue

\* a loss larger than the current value on the next column, with no limit
C13_Witness ==
    /\ step = "calculateNewValue"
    /\ out.args.limit = undefined
    /\ out.args.mode = "lose"
    /\ out.args.turn = "next"
    /\ out.args.newValue > out.args.currentValue
    /\ out.result.value < 0

----------------------------------------------------------------------------
\* C14: a shortfall is surfaced only for the current turn's column: a loss on
\* the now column reports the missing amount max(0, delta - current), and
\* only when it is positive; on the next column updateResources never posts
\* a missing amount, whatever the result.

\* the missing amounts updateResources sent to chat after its first message
MissingPosted == [i \in 1..(Len(out.chat) - 1) |-> out.chat[i + 1].missing]

CurrentRead == getCurrentValue(pre, out.button.type, out.button.turn).value

C14_MissingOnlyNow ==
    /\ step = "updateResources"
    /\ out.error = "none"
    /\ out.evaluated.value # NaN
    /\ out.evaluated.value >= 0
    /\ CurrentRead >= 0
    => MissingPosted =
          IF /\ out.button.turn = "now"
             /\ out.button.mode = "lose"
             /\ out.evaluated.value > CurrentRead
          THEN <<out.evaluated.value - CurrentRead>>
          ELSE <<>>

\* a loss that exceeds the stock, posted with its missing amount
C14_Witness ==
    /\ step = "updateResources"
    /\ out.button = [type |-> "food", mode |-> "lose", turn |-> "now", value |-> <<"2">>]
    /\ pre.commodities.now.food = 0
    /\ MissingPosted = <<2>>

----------------------------------------------------------------------------
\* C15: with a limit, calculateNewValue returns max(limit, current + delta)
\* in gain mode and max(limit, current - delta) in lose mode, and applying
\* the same limit again to the value it returned leaves it unchanged.
C15_LimitIsMax ==
    step = "calculateNewValue" /\ out.args.limit # undefined
        => /\ out.result.value =
                 Max(out.args.limit[1],
                     IF out.args.mode = "gain"
                     THEN out.args.currentValue + out.args.newValue
                     ELSE out.args.currentValue - out.args.newValue)
           /\ calculateNewValue([out.args EXCEPT !.currentValue = out.result.value,
                                                 !.newValue = 0]).value
                 = out.result.value

\* a gain that stays below the limit and is returned as the limit
C15_Witness ==
    /\ step = "calculateNewValue"
    /\ out.args.limit # undefined
    /\ out.args.mode = "gain"
    /\ out.args.currentValue + out.args.newValue < out.args.limit[1]
    /\ out.args.newValue > 0
    /\ out.result.value = out.args.limit[1]

----------------------------------------------------------------------------
\* C16: getLimit returns a capacity (the size table's base capacity plus the
\* settlements' summed storage of the commodity) exactly when the type is
\* one of the five commodities and the turn is 'next'; for every other type
\* and turn it returns no limit.
C16_GetLimit ==
    step = "getLimit"
        => out.result =
              IF out.args.type \in Commodity /\ out.args.turn = "next"
              THEN defined(CapacityOf(pre, out.args.type))
              ELSE undefined

\* a limit that includes what the settlements store
C16_Witness ==
    /\ step = "getLimit"
    /\ out.args = [type |-> "lumber", turn |-> "next"]
    /\ StoredFor("lumber") > 0
    /\ out.result = defined(getSizeData(pre.size).commodityCapacity + StoredFor("lumber"))

----------------------------------------------------------------------------
\* C17: capacity clamps apply only to the now column: updateResources on a
\* commodity's next column stores exactly current + delta or current - delta,
\* never a value the storage capacity altered.
C17_NextColumnUnclamped ==
    /\ step = "updateResources"
    /\ out.error = "none"
    /\ out.button.type \in Commodity
    /\ out.button.turn = "next"
    /\ out.evaluated.value # NaN
    => kingdom.commodities.next[out.button.type] =
          IF out.button.mode = "gain"
          THEN pre.commodities.next[out.button.type] + out.evaluated.value
          ELSE pre.commodities.next[out.button.type] - out.evaluated.value

----------------------------------------------------------------------------
\* C18: read and write of the resolver stay in lock-step: for every tag of
\* the closed set, every turn and every value v, createUpdate saved as a
\* top-level merge and then getCurrentValue returns v; roll-resource-dice
\* addresses the cell of resource-points, and unrest and the four ruin tags
\* address one cell for both turns.
C18_ReadAfterWrite ==
    step = "createUpdate" /\ out.args.type \in RolledResources
        => /\ ~out.result.threw
           /\ out.read[out.args.turn] = returned(out.args.value)
           /\ out.args.type \in {"roll-resource-dice", "resource-points"}
                 => kingdom.resourcePoints[out.args.turn] = out.args.value
           /\ out.args.type \in Ruin \cup {"unrest"}
                 => \A t \in ResourceTurn : out.read[t] = returned(out.args.value)
           /\ \A f \in DOMAIN pre \ DOMAIN out.result.value : kingdom[f] = pre[f]

\* a write through roll-resource-dice that changed the resource points
C18_Witness ==
    /\ step = "createUpdate"
    /\ out.args.type = "roll-resource-dice"
    /\ out.args.turn = "next"
    /\ out.args.value # pre.resourcePoints.next
    /\ kingdom.resourcePoints.next = out.args.value
    /\ kingdom.resourceDice = pre.resourceDice

----------------------------------------------------------------------------
\* C19: for a tag outside the closed set, getCurrentValue and createUpdate
\* both fail with the unhandled-type error, and updateResources commits
\* nothing to the record.
C19_UnhandledTypeFails ==
    step = "updateResources" /\ out.button.type \notin RolledResources
        => /\ getCurrentValue(pre, out.button.type, out.button.turn).threw
           /\ getCurrentValue(pre, out.button.type, out.button.turn).error
                 = "Unhandled type"
           /\ createUpdate(pre, out.button.type, out.button.turn, 0) = unhandledType
           /\ out.error # "none"
           /\ ~out.evaluated.threw => out.error = "Unhandled type" /\ out.chat = <<>>
           /\ kingdom = prior

\* a well-formed button of an unhandled tag, clicked
C19_Witness ==
    /\ step = "updateResources"
    /\ out.button = [type |-> "fame", mode |-> "gain", turn |-> "now", value |-> <<"1">>]
    /\ out.error = "Unhandled type"
    /\ kingdom = prior

----------------------------------------------------------------------------
\* Every handler that writes the record, in any order: the turn steps, the
\* reduce-unrest roll, the resource buttons and the structure payments.

\* reduceUnrest up to its first await (the 1d20): nothing is read yet
ClickReduceUnrest ==
    Clicked(clicks < MaxSteps, Run("reduceUnrest", [flavor |-> "Reducing Unrest"],
                          <<AwaitedRoll(RollTotals(1, 20)), Awaited("roll.toMessage")>>))

\* reduceUnrest from the roll's message to its return or to the await of
\* update: the record is read when the update is built
ResumeReduceUnrest ==
    \E run \in Suspended("reduceUnrest") :
        LET total == run.rolled[1]
        IN  Resumed(run, kingdom,
                    IF total > 10
                    THEN update([unrest |-> Max(0, kingdom.unrest - 1)])
                    ELSE noUpdate,
                    [rolls |-> <<[count |-> 1, faces |-> 20, total |-> total]>>,
                     chat |-> <<>>])

\* the pay callback, had it rebuilt only the now column of the commodities
payStructureUpdateNowOnly(held, costs) ==
    [commodities |->
        [now |-> [held.commodities.now EXCEPT
                    !.ore = Max(0, held.commodities.now.ore - costs.ore),
                    !.lumber = Max(0, held.commodities.now.lumber - costs.lumber),
                    !.luxuries = Max(0, held.commodities.now.luxuries - costs.luxuries),
                    !.stone = Max(0, held.commodities.now.stone - costs.stone)]],
     resourcePoints |->
        [held.resourcePoints EXCEPT !.now = Max(0, held.resourcePoints.now - costs.rp)]]

\* the partial record the structure browser's pay callback saves, built from
\* the record the browser holds
payStructureUpdate(held, costs) ==
    [commodities |->
        [held.commodities EXCEPT
            !.now = [held.commodities.now EXCEPT
                        !.ore = Max(0, held.commodities.now.ore - costs.ore),
                        !.lumber = Max(0, held.commodities.now.lumber - costs.lumber),
                        !.luxuries = Max(0, held.commodities.now.luxuries - costs.luxuries),
                        !.stone = Max(0, held.commodities.now.stone - costs.stone)]],
     resourcePoints |->
        [held.resourcePoints EXCEPT !.now = Max(0, held.resourcePoints.now - costs.rp)]]

\* the costs the pay dialog hands to the callback
StructureCosts ==
    {[rp |-> 1, ore |-> 0, lumber |-> 1, luxuries |-> 0, stone |-> 0],
     [rp |-> 5, ore |-> 4, lumber |-> 0, luxuries |-> 2, stone |-> 1]}

\* getData of the structure browser, run by each of its renders: the stored
\* record is read and held
browserGetData(h, k) == [h EXCEPT !.browser = k]

\* the structure browser is rendered again (a filter is changed)
RenderBrowser ==
    /\ clicks < MaxSteps
    /\ clicks' = clicks + 1
    /\ host' = browserGetData(host, kingdom)
    /\ UNCHANGED <<kingdom, settlements, pre, prior, step, out, tasks>>

\* payStructure's pay callback up to its first await: saveKingdom is called
\* at once with a partial built from the record the browser holds. `out`
\* has the chat message of the callback from the save on; it is sent when the
\* save is settled.
PayStructure ==
    /\ clicks < MaxSteps
    /\ clicks' = clicks + 1
    /\ \E costs \in StructureCosts :
        LET held == host.browser
        IN  SetFlagCalled(tasks, "pay", "payStructure", held,
                          payStructureUpdate(held, costs),
                          [rolls |-> <<>>,
                           chat |-> <<[title |-> "Paying", costs |-> costs]>>])
    /\ UNCHANGED <<settlements, host>>

\* the pay callback from the await of saveKingdom to that of
\* ChatMessage.create: the save is settled, the browser still holds the
\* record it had read
SavePayStructure ==
    \E run \in Saving("pay") :
        /\ SetFlagSettled(run)
        /\ tasks' = (tasks (-) SetToBag({run}))
                        (+) SetToBag({[handler |-> "payStructure", at |-> "chat"]})
        /\ UNCHANGED <<settlements, host, clicks>>

\* the pay callback from the chat message to its end: this.render() of the
\* browser, whose getData reads the stored record again
RenderPaidStructure ==
    \E run \in Saving("chat") :
        /\ tasks' = tasks (-) SetToBag({run})
        /\ host' = browserGetData(host, kingdom)
        /\ UNCHANGED <<kingdom, settlements, pre, prior, step, out, clicks>>

\* the buttons clicked whose value evaluates to a number or throws
NumberButtons ==
    {button \in ClickedButtons :
        \/ rollsDice(button.type, button.value) /\ button.value # <<" ", "1">>
        \/ button.value = <<"2">>}

InitKingdom == \E k \in {r \in ResourceKingdoms : r.size = 9} : Start(k, <<Town>>)

NextKingdom ==
    \/ ClickEndTurn
    \/ ResumeEndTurn
    \/ ClickCollectResources
    \/ ResumeCollectResources
    \/ ClickPayConsumption
    \/ ResumePayConsumption
    \/ ClickAdjustUnrest
    \/ ResumeAdjustUnrest
    \/ ClickCheckForEvent
    \/ ResumeCheckForEvent
    \/ ClickReduceUnrest
    \/ ResumeReduceUnrest
    \/ Idle /\ ClickUpdateResourcesWithin(MaxSteps, NumberButtons)
    \/ ResumeUpdateResources
    \/ PostUpdateResources
    \/ RenderBrowser
    \/ PayStructure
    \/ ResumeUpdate
    \/ SaveUpdateResources
    \/ SavePayStructure
    \/ RenderPaidStructure
    \/ ResumeAwait

SpecKingdom == InitKingdom /\ [][NextKingdom]_vars

----------------------------------------------------------------------------
\* C20: in every committed record reachable by any sequence of turn steps,
\* reduce-unrest rolls, resource-button updates and structure payments from
\* a non-negative record, unrest >= 0 and each of the five commodities is
\* >= 0 in both columns.
C20_NonNegative ==
    /\ kingdom.unrest >= 0
    /\ \A t \in ResourceTurn, c \in Commodity : kingdom.commodities[t][c] >= 0

----------------------------------------------------------------------------
\* The sheet's own controls (kingdom.ts: _updateObject and the listeners of
\* activateListeners): the form, the lists, fame, experience and level-up.

\* the highest kingdom level
MaxLevel == 20

\* canLevelUp of getData: what the sheet is handed for its template
canLevelUp(kingdomData) ==
    kingdomData.xp >= kingdomData.xpThreshold /\ kingdomData.level < MaxLevel

\* what a control of the sheet leaves in `out`
NothingPosted == [rolls |-> <<>>, chat |-> <<>>, notifications |-> <<>>]

\* the click handler of #km-level-up: update is called at once
LevelUp ==
    LET current == kingdom
    IN  IF current.xp >= current.xpThreshold
        THEN Completed(MaxSteps, "levelUp", current,
                       update(
                              [level |-> current.level + 1,
                               xp |-> current.xp - current.xpThreshold]),
                       NothingPosted)
        ELSE Completed(MaxSteps, "levelUp", current, noUpdate,
                       [NothingPosted EXCEPT
                            !.notifications = <<"Can not level up, not enough XP">>])

\* the click handler of #km-gain-fame
GainFame ==
    Completed(MaxSteps, "gainFame", kingdom,
              update([fame |-> Min(3, kingdom.fame + 1)]),
              NothingPosted)

\* the names and items the dialogs hand to their callbacks
DialogItems == {[name |-> "Bandit Activity"], [name |-> "Brevoy", id |-> "Insider Trading"]}

\* the callback of the dialog of #km-add-event
AddOngoingEvent ==
    \E item \in DialogItems :
        LET current == kingdom
        IN  Completed(MaxSteps, "addOngoingEvent", current,
                      update(
                             [ongoingEvents |->
                                current.ongoingEvents \o <<[name |-> item.name]>>]),
                      NothingPosted)

\* the callback of the dialog of #km-add-group
AddGroup ==
    \E group \in DialogItems :
        Completed(MaxSteps, "addGroup", kingdom,
                  update([groups |-> kingdom.groups \o <<group>>]),
                  NothingPosted)

\* onOk of the dialog of #km-add-bonus-feat
AddBonusFeat ==
    \E feat \in {InsiderTrading, EndureAnarchy} :
        Completed(MaxSteps, "addBonusFeat", kingdom,
                  update([bonusFeats |-> kingdom.bonusFeats \o <<feat>>]),
                  NothingPosted)

\* the callback of the dialog of #blacklist-activities
BlacklistActivities ==
    \E activityBlacklist \in {<<>>, <<"quell-unrest">>} :
        Completed(MaxSteps, "blacklistActivities", kingdom,
                  update([activityBlacklist |-> activityBlacklist]),
                  NothingPosted)

\* Array.prototype.splice(deleteAt, 1) on a copy, for 0 <= deleteAt: an index
\* past the end removes nothing
splice(values, deleteAt) ==
    SubSeq(values, 1, Min(deleteAt, Len(values)))
        \o SubSeq(values, deleteAt + 2, Len(values))

\* deleteKingdomPropertyAtIndex: the index is that of the delete button
\* clicked, an entry of the list as the sheet on screen shows it; the list
\* it is spliced from is the stored one, and update is called with what is
\* left of it
DeleteKingdomPropertyAtIndex ==
    \E property \in DeletableProperties :
        \E deleteAt \in 0..(Len(host.lists[property]) - 1) :
            LET values == splice(kingdom[property], deleteAt)
            IN  Completed(MaxSteps, "deleteKingdomPropertyAtIndex", kingdom,
                          update([p \in {property} |-> values]),
                          NothingPosted)

\* the experience the three XP buttons hand to increaseXP
XPGains == {10, 30, 1000}

\* increaseXP up to its first await (ChatMessage.create): nothing is read yet
ClickIncreaseXP ==
    \E xp \in XPGains :
        Clicked(clicks < MaxSteps,
                Run("increaseXP", [xp |-> xp], <<Awaited("ChatMessage.create")>>))

\* increaseXP from the chat message to the end of update: the stored xp is
\* read when the update is built
ResumeIncreaseXP ==
    \E run \in Suspended("increaseXP") :
        Resumed(run, kingdom,
                update([xp |-> kingdom.xp + run.read.xp]),
                [NothingPosted EXCEPT !.chat = <<[title |-> "Gained", xp |-> run.read.xp]>>])

\* unpackFormArray on a field of the expanded form data: the entries of an
\* object keyed by 0, 1, ... in order, and [] for a missing field
unpackFormArray(form, field) ==
    IF field \notin DOMAIN form THEN <<>>
    ELSE [i \in 1..Cardinality(DOMAIN form[field]) |-> form[field][i - 1]]

\* the record _updateObject saves for the expanded form data
formKingdom(current, form) ==
    LET milestones == current.milestones
        completed == unpackFormArray(form, "milestones")
        lists ==
            [groups |-> unpackFormArray(form, "groups"),
             feats |-> unpackFormArray(form, "feats"),
             bonusFeats |-> unpackFormArray(form, "bonusFeats"),
             milestones |->
                [i \in 1..Len(completed) |->
                    IF i <= Len(milestones)
                    THEN [milestones[i] EXCEPT !.completed = completed[i].completed]
                    ELSE [completed |-> completed[i].completed]]]
    IN  lists @@ form

\* the form data the sheet submits: the inputs that were on it
FormData ==
    {[unrest |-> 9, level |-> 7],
     [level |-> 3,
      bonusFeats |-> [i \in {0} |-> InsiderTrading],
      milestones |-> [i \in {0} |-> [completed |-> TRUE]]]}

\* _updateObject up to the await of saveKingdom: the form is submitted; what
\* follows the await is what follows it in update
UpdateObject ==
    \E form \in FormData :
        Completed(MaxSteps, "updateObject", kingdom,
                  update(formKingdom(kingdom, form)), NothingPosted)

WithXP(k, xp, xpThreshold) ==
    [f \in DOMAIN k \cup {"xp", "xpThreshold"} |->
        IF f = "xp" THEN xp ELSE IF f = "xpThreshold" THEN xpThreshold ELSE k[f]]

\* the fields of the record behind the sheet's lists and fame
SheetFields ==
    [fame |-> 2, ongoingEvents |-> <<>>, groups |-> <<>>, activityBlacklist |-> <<>>,
     milestones |-> <<[name |-> "Cities: Build your first village", xp |-> 40,
                       completed |-> FALSE]>>]

\* a stored bonus feat whose id is not the name of a feat
HomebrewFeat == [id |-> "Homebrew Feat"]

\* the bonus feats stored at the start
StoredBonusFeats == {<<>>, <<HomebrewFeat, InsiderTrading>>}

\* records that differ in level, experience and bonus feats
LevelKingdoms ==
    {SheetFields @@ WithXP([DefaultKingdom EXCEPT !.level = level,
                                                  !.bonusFeats = bonusFeats],
                           xp, 1000) :
        level \in {1, 10, 19, MaxLevel},
        xp \in {0, 999, 1000, 2000, 3000},
        bonusFeats \in StoredBonusFeats}

\* the sheet on screen, its lists followed
SheetListed(k) == getData([lists |-> <<>>] @@ SheetShown(k), k)

InitLevel == \E k \in LevelKingdoms : StartIn(k, <<Town>>, SheetListed(k))

NextLevel ==
    \/ LevelUp
    \/ GainFame
    \/ AddOngoingEvent
    \/ AddGroup
    \/ AddBonusFeat
    \/ BlacklistActivities
    \/ DeleteKingdomPropertyAtIndex
    \/ ClickIncreaseXP
    \/ ResumeIncreaseXP
    \/ UpdateObject
    \/ ResumeUpdate

SpecLevel == InitLevel /\ [][NextLevel]_vars

----------------------------------------------------------------------------
\* C21: the kingdom level stays within 1..20 in every reachable state: from
\* a level in 1..20 no sequence of level-ups commits a level above 20, and a
\* level-up is committed only when xp >= xpThreshold, with level' = level + 1
\* and xp' = xp - xpThreshold.
C21_LevelWithinBounds ==
    /\ kingdom.level \in 1..MaxLevel
    /\ step = "levelUp" /\ kingdom # pre
          => /\ pre.xp >= pre.xpThreshold
             /\ kingdom.level = pre.level + 1
             /\ kingdom.xp = pre.xp - pre.xpThreshold

----------------------------------------------------------------------------
\* The settlement aggregates: getSettlementData over the game's settlement
\* scenes (kingdom.ts) and getMergedData for the viewed scene (scene.ts).

\* the permutations of 1..n
IndexPermutations(n) == {p \in [1..n -> 1..n] : \A i, j \in 1..n : p[i] = p[j] => i = j}

\* the settlement of the capital scene, as evaluateStructures returns it
Palace ==
    [consumption |-> 3,
     storage |-> [food |-> 5, luxuries |-> 2, ore |-> 0, lumber |-> 1, stone |-> 4],
     leadershipActivityBonus |-> TRUE,
     unlockActivities |-> {"capital-investment", "craft-luxuries"}]

\* the scenes of a game: the settlementData flag (<<>> when unset) and the
\* settlement its structures evaluate to; a scene without the flag is no
\* settlement
SceneKinds ==
    {[flag |-> defined([settlementLevel |-> 3, settlementType |-> "Capital",
                        overcrowded |-> FALSE, secondaryTerritory |-> FALSE]),
      settlement |-> Palace],
     [flag |-> defined([settlementLevel |-> 2, settlementType |-> "Settlement",
                        overcrowded |-> TRUE, secondaryTerritory |-> FALSE]),
      settlement |-> Town.settlement],
     [flag |-> defined([settlementLevel |-> 1, settlementType |-> "Settlement",
                        overcrowded |-> FALSE, secondaryTerritory |-> TRUE]),
      settlement |-> Outpost.settlement],
     [flag |-> undefined, settlement |-> Village.settlement]}

\* games: the scenes in order, and the index of the viewed one (0 when none)
Games ==
    UNION {[scenes : [1..n -> SceneKinds], viewed : 0..n] : n \in 0..(MaxSettlements + 1)}

getSceneData(game, i) ==
    LET sceneData == game.scenes[i].flag
    IN  [name |-> i, id |-> i,
         settlementLevel |-> IF sceneData = undefined THEN 1
                             ELSE sceneData[1].settlementLevel,
         settlementType |-> IF sceneData = undefined THEN "-"
                            ELSE sceneData[1].settlementType,
         secondaryTerritory |-> IF sceneData = undefined THEN FALSE
                                ELSE sceneData[1].secondaryTerritory,
         overcrowded |-> IF sceneData = undefined THEN FALSE
                         ELSE sceneData[1].overcrowded]

\* game.scenes.find(...): the index of the first capital scene, 0 when none
getCapitalScene(game) ==
    LET capitals == {i \in 1..Len(game.scenes) :
                        getSceneData(game, i).settlementType = "Capital"}
    IN  IF capitals = {} THEN 0 ELSE CHOOSE i \in capitals : \A j \in capitals : i <= j

getCurrentScene(game) == game.viewed

\* evaluateStructures(getSceneStructures(scene), settlementLevel)
evaluateStructures(game, i) == game.scenes[i].settlement

\* includeCapital of ./structures: the local settlement, with the capital's
\* unlocked activities added
includeCapital(capital, settlement) ==
    [settlement EXCEPT !.unlockActivities = @ \cup capital.unlockActivities]

\* getMergedData with the two settlements handed to includeCapital swapped
getMergedDataCapitalFirst(game) ==
    LET capitalScene == getCapitalScene(game)
        currentScene == getCurrentScene(game)
    IN  IF capitalScene # 0 /\ currentScene # 0 /\ capitalScene # currentScene
        THEN defined([scenedData |-> getSceneData(game, currentScene),
                      settlement |-> includeCapital(evaluateStructures(game, currentScene),
                                                    evaluateStructures(game, capitalScene))])
        ELSE IF currentScene # 0
        THEN defined([scenedData |-> getSceneData(game, currentScene),
                      settlement |-> evaluateStructures(game, currentScene)])
        ELSE undefined

getMergedData(game) ==
    LET capitalScene == getCapitalScene(game)
        currentScene == getCurrentScene(game)
    IN  IF capitalScene # 0 /\ currentScene # 0 /\ capitalScene # currentScene
        THEN defined([scenedData |-> getSceneData(game, currentScene),
                      settlement |-> includeCapital(evaluateStructures(game, capitalScene),
                                                    evaluateStructures(game, currentScene))])
        ELSE IF currentScene # 0
        THEN defined([scenedData |-> getSceneData(game, currentScene),
                      settlement |-> evaluateStructures(game, currentScene)])
        ELSE undefined

\* getSettlements: the scene data of the scenes that are settlements
getSettlements(game) ==
    SelectSeq([i \in 1..Len(game.scenes) |-> getSceneData(game, i)],
              LAMBDA scene : scene.settlementType \in {"Settlement", "Capital"})

\* getAllSettlementSceneDataAndStructures (./structures/scene of the sheet's
\* imports): for each settlement scene the settlement its structures
\* evaluate to and, of its scene data, what the handlers read
getAllSettlementSceneDataAndStructures(game) ==
    LET scenes == getSettlements(game)
    IN  [i \in 1..Len(scenes) |->
            [settlement |-> evaluateStructures(game, scenes[i].id),
             scenedData |-> [overcrowded |-> scenes[i].overcrowded,
                             secondaryTerritory |-> scenes[i].secondaryTerritory]]]

\* a function of the game called on the game as it is; `out` keeps the
\* arguments and the result
Asked(name, call) ==
    /\ step' = name
    /\ out' = call
    /\ UNCHANGED <<kingdom, settlements, pre, prior, clicks, tasks, host>>

GetMergedData ==
    Asked("getMergedData", [args |-> host.game, result |-> getMergedData(host.game)])

GetSettlements ==
    Asked("getSettlements", [args |-> host.game, result |-> getSettlements(host.game)])

GetSettlementData ==
    /\ step = "init"
    /\ Called("getSettlementData", kingdom,
              [args |-> settlements, result |-> getSettlementData(settlements)])

\* getSettlementData on a permutation of the list
GetSettlementDataPermuted ==
    /\ step = "init"
    /\ \E p \in IndexPermutations(Len(settlements)) :
        LET permuted == [i \in 1..Len(settlements) |-> settlements[p[i]]]
        IN  Called("getSettlementDataPermuted", kingdom,
                   [args |-> settlements, permuted |-> permuted,
                    result |-> getSettlementData(permuted)])

\* the reduce step applied to the aggregates of three consecutive parts of
\* the list, grouped to the left and to the right
ReduceGrouped ==
    /\ step = "init"
    /\ \E i \in 0..Len(settlements) :
        \E j \in i..Len(settlements) :
            LET a == getSettlementData(SubSeq(settlements, 1, i))
                b == getSettlementData(SubSeq(settlements, i + 1, j))
                c == getSettlementData(SubSeq(settlements, j + 1, Len(settlements)))
            IN  Called("reduceGrouped", kingdom,
                       [args |-> settlements, cuts |-> <<i, j>>,
                        left |-> reduceSettlement(reduceSettlement(a, b), c),
                        right |-> reduceSettlement(a, reduceSettlement(b, c))])

\* the host's setFlag and unsetFlag on a scene: the settlementData flag of
\* scene i becomes `flag`; the sheet's settlement scenes are those of the game
sceneFlagWritten(h, i, flag) == [h EXCEPT !.game.scenes[i].flag = flag]

\* what the scene settings dialog hands to saveViewedSceneData
ViewedSceneData ==
    {[settlementLevel |-> 1, settlementType |-> "-",
      overcrowded |-> FALSE, secondaryTerritory |-> TRUE],
     [settlementLevel |-> 2, settlementType |-> "Settlement",
      overcrowded |-> TRUE, secondaryTerritory |-> FALSE]}

\* a flag call of saveViewedSceneData on the scene, up to its await: the
\* host has changed the flag when the call returns, or changes it when it
\* settles the call; `out` keeps what the handler was called with
SceneFlagCalled(rest, at, scene, data, flag) ==
    \E written \in BOOLEAN :
        /\ tasks' = rest (+) SetToBag({[handler |-> "saveViewedSceneData", at |-> at,
                                        scene |-> scene, data |-> data,
                                        written |-> written]})
        /\ host' = IF written THEN sceneFlagWritten(host, scene, flag) ELSE host
        /\ settlements' = getAllSettlementSceneDataAndStructures(host'.game)
        /\ step' = "saveViewedSceneData"
        /\ out' = [scene |-> scene, data |-> data]

\* saveViewedSceneData up to its first await: with a viewed scene, unsetFlag
\* is called on it
SaveViewedSceneData ==
    /\ clicks < MaxUpdates
    /\ clicks' = clicks + 1
    /\ \E data \in ViewedSceneData :
        LET viewed == host.game.viewed
        IN  IF viewed = 0
            THEN /\ step' = "saveViewedSceneData"
                 /\ out' = [scene |-> viewed, data |-> data]
                 /\ UNCHANGED <<settlements, tasks, host>>
            ELSE SceneFlagCalled(tasks, "unsetFlag", viewed, data, undefined)
    /\ UNCHANGED <<kingdom, pre, prior>>

\* saveViewedSceneData from the await of unsetFlag to that of setFlag: the
\* flag is gone, setFlag is called with the data
SetViewedSceneData ==
    \E run \in Saving("unsetFlag") :
        LET unset == IF run.written THEN host
                     ELSE sceneFlagWritten(host, run.scene, undefined)
        IN  \E written \in BOOLEAN :
                /\ tasks' = (tasks (-) SetToBag({run}))
                                (+) SetToBag({[run EXCEPT !.at = "setSceneFlag",
                                                          !.written = written]})
                /\ host' = IF written
                           THEN sceneFlagWritten(unset, run.scene, defined(run.data))
                           ELSE unset
                /\ settlements' = getAllSettlementSceneDataAndStructures(host'.game)
                /\ step' = "saveViewedSceneData"
                /\ out' = [scene |-> run.scene, data |-> run.data]
                /\ UNCHANGED <<kingdom, pre, prior, clicks>>

\* saveViewedSceneData from the await of setFlag to its end
SavedViewedSceneData ==
    \E run \in Saving("setSceneFlag") :
        /\ tasks' = tasks (-) SetToBag({run})
        /\ host' = IF run.written THEN host
                   ELSE sceneFlagWritten(host, run.scene, defined(run.data))
        /\ settlements' = getAllSettlementSceneDataAndStructures(host'.game)
        /\ step' = "saveViewedSceneData"
        /\ out' = [scene |-> run.scene, data |-> run.data]
        /\ UNCHANGED <<kingdom, pre, prior, clicks>>

\* the sheet in a game: the settlement scenes are those of the game
InitSettlements ==
    \E game \in Games :
        StartIn(DefaultKingdom, getAllSettlementSceneDataAndStructures(game),
                [game |-> game] @@ SheetShown(DefaultKingdom))

NextSettlements ==
    \/ GetSettlementData
    \/ GetSettlementDataPermuted
    \/ ReduceGrouped
    \/ GetMergedData
    \/ GetSettlements
    \/ Idle /\ SaveViewedSceneData
    \/ SetViewedSceneData
    \/ SavedViewedSceneData

SpecSettlements == InitSettlements /\ [][NextSettlements]_vars

----------------------------------------------------------------------------
\* C22: the kingdom-wide aggregate of a list of settlements has consumption =
\* the sum of the settlements' consumption, storage[c] = the sum of their
\* storage[c] for each commodity, unlockedActivities = the union of their
\* sets, and leadershipActivityNumber = 3 if any settlement grants the
\* leadership activity bonus and 2 otherwise; for the empty list it is
\* consumption 0, storage 0 everywhere, no activity and 2.
C22_Aggregate ==
    step = "getSettlementData" =>
        /\ out.result.settlementConsumption = ConsumedIn(out.args)
        /\ \A c \in Commodity : out.result.storage[c] = StoredIn(out.args, c)
        /\ out.result.unlockedActivities =
              UNION {out.args[i].settlement.unlockActivities : i \in 1..Len(out.args)}
        /\ out.result.leadershipActivityNumber =
              IF \E i \in 1..Len(out.args) : out.args[i].settlement.leadershipActivityBonus
              THEN 3 ELSE 2
        /\ out.args = <<>> =>
              out.result = [leadershipActivityNumber |-> 2, settlementConsumption |-> 0,
                            storage |-> NoCommodities, unlockedActivities |-> {}]

\* the aggregate of three settlements, one of them with the leadership bonus
C22_Witness ==
    /\ step = "getSettlementData"
    /\ out.args = <<Town, Outpost, Town>>
    /\ out.result.settlementConsumption = 4
    /\ out.result.storage.lumber = 3
    /\ out.result.storage.food = 4
    /\ out.result.leadershipActivityNumber = 3
    /\ out.result.unlockedActivities = {"craft-luxuries", "go-fishing"}

----------------------------------------------------------------------------
\* C23: merging across locations is associative and commutative: the
\* aggregate is the same for every permutation of the list and for every way
\* of grouping it, and a settlement that occurs twice is counted twice in
\* the sums.
C23_MergeOrderIrrelevant ==
    /\ step = "getSettlementDataPermuted" => out.result = getSettlementData(out.args)
    /\ step = "reduceGrouped" =>
          out.left = out.right /\ out.left = getSettlementData(out.args)
    /\ step = "getSettlementData" /\ Len(out.args) = 2 /\ out.args[1] = out.args[2] =>
          /\ out.result.settlementConsumption = 2 * out.args[1].settlement.consumption
          /\ \A c \in Commodity :
                out.result.storage[c] = 2 * out.args[1].settlement.storage[c]

\* a list aggregated in another order, its last settlement first
C23_Witness ==
    /\ step = "getSettlementDataPermuted"
    /\ out.args = <<Town, Outpost, Outpost>>
    /\ out.permuted = <<Outpost, Town, Outpost>>
    /\ out.result.leadershipActivityNumber = 3
    /\ out.result.settlementConsumption = 2
    /\ out.result.storage.lumber = 6

----------------------------------------------------------------------------
\* C24: capital inheritance is one-way: for a viewed scene that is not the
\* capital, the merged settlement has the local storage and numeric fields
\* whatever the capital's are, and only its unlocked activities gain the
\* capital's; when the viewed scene is the capital itself, or there is no
\* capital, the result is the local settlement with nothing merged in.

ViewedSettlement == out.args.scenes[out.args.viewed].settlement

\* the indices of the capital scenes of the game
CapitalScenes ==
    {i \in 1..Len(out.args.scenes) :
        /\ out.args.scenes[i].flag # undefined
        /\ out.args.scenes[i].flag[1].settlementType = "Capital"}

\* the capital: the first of the capital scenes
TheCapital == CHOOSE i \in CapitalScenes : \A j \in CapitalScenes : i <= j

C24_CapitalMergeOneWay ==
    step = "getMergedData" /\ out.args.viewed # 0 =>
        /\ out.result # undefined
        /\ out.result[1].settlement.storage = ViewedSettlement.storage
        /\ out.result[1].settlement.consumption = ViewedSettlement.consumption
        /\ out.result[1].settlement.leadershipActivityBonus
              = ViewedSettlement.leadershipActivityBonus
        /\ (CapitalScenes = {} \/ out.args.viewed = TheCapital)
              => out.result[1].settlement = ViewedSettlement
        /\ (CapitalScenes # {} /\ out.args.viewed # TheCapital)
              => out.result[1].settlement.unlockActivities =
                    ViewedSettlement.unlockActivities
                        \cup out.args.scenes[TheCapital].settlement.unlockActivities

\* an outpost viewed while a capital with other storage and activities exists
C24_Witness ==
    /\ step = "getMergedData"
    /\ out.args.viewed = 2
    /\ Len(out.args.scenes) = 2
    /\ out.args.scenes[1].settlement = Palace
    /\ out.args.scenes[2].settlement = Outpost.settlement
    /\ out.result[1].settlement.storage = Outpost.settlement.storage
    /\ out.result[1].settlement.unlockActivities
          = {"go-fishing", "capital-investment", "craft-luxuries"}

----------------------------------------------------------------------------
\* The structure browser (src/unnamed/part_000): the gates that decide
\* which structures it lists.

\* value ?? 0 of an optional number
orZero(value) == IF value = undefined THEN 0 ELSE value[1]

\* structure.construction?.[cost]
constructionCost(structure, cost) ==
    IF structure.construction = undefined THEN undefined
    ELSE structure.construction[1][cost]

requirementMet(requirement, k) ==
    k.skillRanks[requirement.skill] >= orZero(requirement.proficiencyRank)

checkProficiency(structure, k) ==
    \/ structure.construction = undefined
    \/ structure.construction[1].skills = undefined
    \/ Len(structure.construction[1].skills[1]) = 0
    \/ \E i \in 1..Len(structure.construction[1].skills[1]) :
          requirementMet(structure.construction[1].skills[1][i], k)

checkRpCost(structure, k) ==
    orZero(constructionCost(structure, "rp")) <= k.resourcePoints.now

checkLumberCostNextTurn(structure, k) ==
    orZero(constructionCost(structure, "lumber")) <= k.commodities.next.lumber

checkLumberCost(structure, k) ==
    orZero(constructionCost(structure, "lumber")) <= k.commodities.now.lumber

checkOreCost(structure, k) ==
    orZero(constructionCost(structure, "ore")) <= k.commodities.now.ore

checkStoneCost(structure, k) ==
    orZero(constructionCost(structure, "stone")) <= k.commodities.now.stone

checkLuxuriesCost(structure, k) ==
    orZero(constructionCost(structure, "luxuries")) <= k.commodities.now.luxuries

checkBuildingCost(structure, k) ==
    /\ checkLumberCost(structure, k)
    /\ checkRpCost(structure, k)
    /\ checkLuxuriesCost(structure, k)
    /\ checkOreCost(structure, k)
    /\ checkStoneCost(structure, k)

\* the skill requirements of the structures' construction data
Requirements ==
    [skill : {"defense", "magic"},
     proficiencyRank : {undefined, defined(1), defined(2)}]

RequirementLists == UNION {[1..n -> Requirements] : n \in 0..2}

NoCosts ==
    [rp |-> undefined, lumber |-> undefined, ore |-> undefined,
     stone |-> undefined, luxuries |-> undefined]

\* structures that differ in their skill requirements
SkillStructures ==
    {[name |-> "Shrine", construction |-> undefined],
     [name |-> "Shrine",
      construction |-> defined([f \in DOMAIN NoCosts \cup {"skills"} |-> undefined])]}
    \cup {[name |-> "Shrine",
           construction |->
              defined([f \in DOMAIN NoCosts \cup {"skills"} |->
                          IF f = "skills" THEN defined(skills) ELSE undefined])] :
            skills \in RequirementLists}

\* structures that differ in their costs
CostStructures ==
    {[name |-> "Shrine", construction |-> undefined]}
    \cup {[name |-> "Shrine",
           construction |->
              defined([f \in DOMAIN NoCosts \cup {"skills"} |->
                          IF f = "skills" THEN undefined ELSE costs[f]])] :
            costs \in [DOMAIN NoCosts -> {undefined, defined(1), defined(3)}]}

CheckProficiency ==
    /\ step = "init"
    /\ \E structure \in SkillStructures :
        Called("checkProficiency", kingdom,
               [args |-> structure, result |-> checkProficiency(structure, kingdom)])

CheckBuildingCost ==
    /\ step = "init"
    /\ \E structure \in CostStructures :
        Called("checkBuildingCost", kingdom,
               [args |-> structure, result |-> checkBuildingCost(structure, kingdom)])

WithSkillRanks(k, skillRanks) ==
    [f \in DOMAIN k \cup {"skillRanks"} |-> IF f = "skillRanks" THEN skillRanks ELSE k[f]]

\* the records the browser reads: skill ranks, resource points and stocks
BrowserKingdoms ==
    {WithSkillRanks([DefaultKingdom EXCEPT
                        !.commodities = stock, !.resourcePoints.now = rp],
                    [defense |-> defense, magic |-> magic]) :
        stock \in {DefaultKingdom.commodities,
                   [now |-> NoCommodities, next |-> DefaultKingdom.commodities.now],
                   [now |-> [food |-> 0, luxuries |-> 3, ore |-> 1, lumber |-> 3, stone |-> 1],
                    next |-> NoCommodities]},
        rp \in {0, 5}, defense \in {0, 2}, magic \in {0, 1}}

InitBrowser == \E k \in BrowserKingdoms : Start(k, <<Town>>)

NextBrowser ==
    \/ CheckProficiency
    \/ CheckBuildingCost

SpecBrowser == InitBrowser /\ [][NextBrowser]_vars

----------------------------------------------------------------------------
\* C25: the building-proficiency gate passes a structure only if every skill
\* requirement of its construction data is met (kingdom rank of the skill >=
\* required rank, a missing required rank counting as 0); a structure with
\* no construction data or no skill requirement always passes.

RequiredSkills ==
    IF out.args.construction = undefined THEN <<>>
    ELSE IF out.args.construction[1].skills = undefined THEN <<>>
    ELSE out.args.construction[1].skills[1]

C25_EveryRequirementMet ==
    step = "checkProficiency" =>
        out.result =
            \A i \in 1..Len(RequiredSkills) :
                pre.skillRanks[RequiredSkills[i].skill]
                    >= (IF RequiredSkills[i].proficiencyRank = undefined THEN 0
                        ELSE RequiredSkills[i].proficiencyRank[1])

----------------------------------------------------------------------------
\* C26: the affordability gate passes a structure exactly when each of its
\* five costs, an absent cost counting as 0, is <= the current-turn quantity:
\* rp <= resourcePoints.now, and lumber, ore, stone, luxuries <= their entry
\* of commodities.now; the next column never counts.

CostOf(cost) ==
    IF out.args.construction = undefined THEN 0
    ELSE IF out.args.construction[1][cost] = undefined THEN 0
    ELSE out.args.construction[1][cost][1]

C26_Affordable ==
    step = "checkBuildingCost" =>
        out.result =
            /\ CostOf("rp") <= pre.resourcePoints.now
            /\ \A c \in {"lumber", "ore", "stone", "luxuries"} :
                  CostOf(c) <= pre.commodities.now[c]

\* a structure refused for its lumber cost, which next turn's stock would cover
C26_Witness ==
    /\ step = "checkBuildingCost"
    /\ CostOf("lumber") = 1
    /\ CostOf("rp") = 0 /\ CostOf("ore") = 0 /\ CostOf("stone") = 0
    /\ CostOf("luxuries") = 0
    /\ pre.commodities.now.lumber = 0
    /\ pre.commodities.next.lumber >= 1
    /\ ~out.result

----------------------------------------------------------------------------
\* PayConsumption alone, on records that carry the ruin block.

InitConsumption ==
    \E k \in ResourceKingdoms, list \in SettlementLists : Start(k, list)

NextConsumption ==
    \/ Idle /\ ClickPayConsumption
    \/ ResumePayConsumption
    \/ ResumeUpdate

SpecConsumption == InitConsumption /\ [][NextConsumption]_vars

----------------------------------------------------------------------------
\* C27: PayConsumption applies no remedy for a shortfall by itself: whatever
\* the shortfall, it leaves resourcePoints, unrest, ruin, resourceDice,
\* consumption, the four other now commodities and the whole next column as
\* they were, and changes only commodities.now.food.
C27_PayConsumptionFrame ==
    step = "payConsumption" =>
        /\ OnlyChanged({"commodities"})
        /\ kingdom.resourcePoints = pre.resourcePoints
        /\ kingdom.unrest = pre.unrest
        /\ kingdom.ruin = pre.ruin
        /\ kingdom.resourceDice = pre.resourceDice
        /\ kingdom.consumption = pre.consumption
        /\ DOMAIN kingdom.commodities = {"now", "next"}
        /\ kingdom.commodities.next = pre.commodities.next
        /\ \A c \in Commodity \ {"food"} :
              kingdom.commodities.now[c] = pre.commodities.now[c]

\* a shortfall reported while resource points were at hand to pay for it
C27_Witness ==
    /\ step = "payConsumption"
    /\ out.chat # <<>>
    /\ out.chat[1].missing > 0
    /\ pre.resourcePoints.now > 0
    /\ kingdom.resourcePoints = pre.resourcePoints
    /\ kingdom.unrest = pre.unrest
    /\ kingdom.commodities.now.food = 0

----------------------------------------------------------------------------
\* C28: AdjustUnrest performs the 1d10 ruin roll and the 1d20 hex-loss check
\* exactly when the unrest it commits is >= 10, and reports the loss of a hex
\* exactly when that 1d20 roll is >= 11; neither roll changes any field of
\* the record other than through the committed unrest.
C28_RuinAndHexRolls ==
    step = "adjustUnrest" =>
        /\ out.rolls =
              IF kingdom.unrest >= 10
              THEN <<[count |-> 1, faces |-> 10],
                     [count |-> 1, faces |-> 20, total |-> out.rolls[2].total]>>
              ELSE <<>>
        /\ Posted("You lose one hex") <=> (kingdom.unrest >= 10 /\ out.rolls[2].total >= 11)
        /\ OnlyChanged({"unrest"})

\* unrest committed at 10 and a hex lost on a roll of exactly 11
C28_Witness ==
    /\ step = "adjustUnrest"
    /\ kingdom.unrest = 10
    /\ pre.unrest = 9
    /\ Len(out.rolls) = 2
    /\ out.rolls[2].total = 11
    /\ Posted("You lose one hex")

----------------------------------------------------------------------------
\* AdjustUnrest around the anarchy threshold.

\* records that differ in the feats and in the unrest near 20 and 24
AnarchyKingdoms ==
    {[DefaultKingdom EXCEPT
        !.level = level, !.unrest = unrest, !.feats = f, !.bonusFeats = b,
        !.atWar = atWar] :
      level \in {19}, unrest \in {18, 19, 23, 24},
      f \in {<<>>, <<EndureAnarchy>>, <<InsiderTrading>>},
      b \in {<<>>, <<EndureAnarchy>>}, atWar \in BOOLEAN}

InitAnarchy ==
    \E k \in AnarchyKingdoms, list \in {<<>>, <<Town, Outpost>>} : Start(k, list)

NextAnarchy ==
    \/ Idle /\ ClickAdjustUnrest
    \/ ResumeAdjustUnrest
    \/ ResumeUpdate
    \/ ResumeAwait

SpecAnarchy == InitAnarchy /\ [][NextAnarchy]_vars

\* C29: the anarchy threshold is 24 if the Endure Anarchy feat is among feats
\* or bonusFeats and 20 otherwise; when the unrest committed by AdjustUnrest
\* reaches or exceeds it, only a warning is emitted: no field other than
\* unrest changes and every turn step remains invocable afterwards.

AnarchyThreshold == IF "Endure Anarchy" \in FeatIds(pre) THEN 24 ELSE 20

C29_AnarchyOnlyWarns ==
    step = "adjustUnrest" =>
        /\ Posted("Kingdom falls into anarchy") <=> kingdom.unrest >= AnarchyThreshold
        /\ OnlyChanged({"unrest"})
        /\ kingdom.unrest >= AnarchyThreshold /\ clicks < MaxSteps =>
              /\ ENABLED ClickEndTurn
              /\ ENABLED ClickCollectResources
              /\ ENABLED ClickPayConsumption
              /\ ENABLED ClickAdjustUnrest
              /\ ENABLED ClickCheckForEvent

\* the warning at unrest 24 with Endure Anarchy among the bonus feats
C29_Witness ==
    /\ step = "adjustUnrest"
    /\ pre.feats = <<>>
    /\ pre.bonusFeats = <<EndureAnarchy>>
    /\ pre.unrest = 23
    /\ kingdom.unrest = 24
    /\ Posted("Kingdom falls into anarchy")
    /\ clicks < MaxSteps
    /\ ENABLED ClickEndTurn

----------------------------------------------------------------------------
\* C30: a shortfall during structure payment is reported and never silently
\* ignored: when a cost paid through payStructure exceeds the kingdom's
\* current quantity of that resource, the outcome reports the unpaid amount.

\* the quantity at hand of what a structure costs
AtHand(k, cost) == IF cost = "rp" THEN k.resourcePoints.now ELSE k.commodities.now[cost]

PaidCosts == out.chat[1].costs

Shortfalls == {cost \in DOMAIN PaidCosts : PaidCosts[cost] > AtHand(prior, cost)}

C30_PaymentShortfallReported ==
    step = "payStructure" /\ Shortfalls # {} =>
        \E i \in 1..Len(out.chat) :
            /\ "unpaid" \in DOMAIN out.chat[i]
            /\ \A cost \in Shortfalls :
                  out.chat[i].unpaid[cost] = PaidCosts[cost] - AtHand(prior, cost)

----------------------------------------------------------------------------
\* The structures of a scene (scene.ts): getSceneStructures parses the
\* structureData flag of every token's actor.

\* tokens on a scene
MaxTokens == 3

\* structuresByName of ./structure-data: the predefined structures
structuresByName ==
    [n \in {"Granary", "Lumberyard"} |->
        [name |-> n, storage |-> IF n = "Granary" THEN [food |-> 1] ELSE [lumber |-> 1]]]

\* ruleSchema.validate(rule).error of ./schema: set when the rule does not
\* conform to the schema
validationError(rule) == ~rule.conforms

StructureError(message, name) ==
    [threw |-> TRUE, error |-> [class |-> "StructureError", message |-> message, name |-> name]]

\* name: string | null as <<>> or <<name>>; data: the flag, <<>> when unset
parseStructureData(name, data) ==
    IF data = undefined THEN returned(undefined)
    ELSE IF "ref" \in DOMAIN data[1]
    THEN IF data[1].ref \notin DOMAIN structuresByName
         THEN StructureError("No predefined structure data found for actor, aborting", name)
         ELSE returned(defined(structuresByName[data[1].ref]))
    ELSE IF name # undefined
    THEN LET rule == data[1] @@ [name |-> name[1]]
         IN  IF validationError(rule)
             THEN StructureError("Structure failed to validate, aborting", name)
             ELSE returned(defined(rule))
    ELSE returned(data)

\* the actors of the tokens that have one
sceneActors(scene) ==
    LET withActor == SelectSeq(scene.tokens, LAMBDA t : t.actor # undefined)
    IN  [i \in 1..Len(withActor) |-> withActor[i].actor[1]]

\* the structures, and the error notifications shown while reading them
getSceneStructures(scene) ==
    LET actors == sceneActors(scene)
        parsed == [i \in 1..Len(actors) |-> parseStructureData(actors[i].name, actors[i].flag)]
        thrown == {i \in 1..Len(actors) : parsed[i].threw}
    IN  IF thrown # {}
        THEN LET first == CHOOSE i \in thrown : \A j \in thrown : i <= j
             IN  [structures |-> <<>>, notifications |-> <<parsed[first].error>>]
        ELSE LET found == SelectSeq(parsed, LAMBDA p : p.value # undefined)
             IN  [structures |-> [i \in 1..Len(found) |-> found[i].value[1]],
                  notifications |-> <<>>]

\* the tokens a scene may hold: without actor, with an actor without flag,
\* referring to a predefined structure or to none, carrying a rule that
\* conforms to the schema or not, and a nameless actor carrying a rule
TokenKinds ==
    {[actor |-> undefined],
     [actor |-> defined([name |-> defined("Bandit"), flag |-> undefined])],
     [actor |-> defined([name |-> defined("Granary"), flag |-> defined([ref |-> "Granary"])])],
     [actor |-> defined([name |-> defined("Ruin"), flag |-> defined([ref |-> "Ruin"])])],
     [actor |-> defined([name |-> defined("Shrine"),
                         flag |-> defined([conforms |-> TRUE, storage |-> [stone |-> 1]])])],
     [actor |-> defined([name |-> defined("Hovel"),
                         flag |-> defined([conforms |-> FALSE, storage |-> [ore |-> 1]])])],
     [actor |-> defined([name |-> undefined,
                         flag |-> defined([conforms |-> FALSE, storage |-> [ore |-> 2]])])]}

Scenes == UNION {[tokens : [1..n -> TokenKinds]] : n \in 0..MaxTokens}

GetSceneStructures ==
    /\ step = "init"
    /\ \E scene \in Scenes :
        Called("getSceneStructures", kingdom,
               [args |-> scene, result |-> getSceneStructures(scene)])

InitScene == Start(DefaultKingdom, <<>>)

NextScene == GetSceneStructures

SpecScene == InitScene /\ [][NextScene]_vars

----------------------------------------------------------------------------
\* C31: when one structure record of a scene fails validation, the error is
\* shown to the user, only the failing record is skipped and the other valid
\* records of the scene still make up the structures returned.

\* the records of the scene that parse, in token order
ValidRecords ==
    LET actors == sceneActors(out.args)
        parsed == [i \in 1..Len(actors) |-> parseStructureData(actors[i].name, actors[i].flag)]
        kept == SelectSeq(parsed, LAMBDA p : ~p.threw /\ p.value # undefined)
    IN  [i \in 1..Len(kept) |-> kept[i].value[1]]

FailingRecords ==
    LET actors == sceneActors(out.args)
    IN  {i \in 1..Len(actors) : parseStructureData(actors[i].name, actors[i].flag).threw}

C31_OnlyFailingRecordSkipped ==
    step = "getSceneStructures" =>
        /\ out.result.structures = ValidRecords
        /\ FailingRecords # {} <=> out.result.notifications # <<>>

----------------------------------------------------------------------------
\* C32: the persistence layer replaces the top-level fields of the Kingdom
\* that a partial names, so every partial saved by a turn step, by
\* createUpdate and by payStructure holds each field it names in full: after
\* the save no sub-field of resourcePoints, resourceDice, consumption,
\* commodities (both columns, all five commodities) or ruin is missing, and
\* the sub-fields the step does not write keep the values the step read.

\* one button for each branch of createUpdate that writes a nested field,
\* and each column
PartialButtons ==
    {button \in Buttons :
        /\ button.value = <<"1">>
        /\ button.mode = "gain"
        /\ button.type \in {"resource-points", "resource-dice", "strife", "ore"}}

\* a small kingdom, its stock at hand or due next turn
PartialKingdoms ==
    {[k EXCEPT !.size = 1] : k \in {r \in ResourceKingdoms : r.size = 9 /\ r.unrest = 0}}

InitPartials == \E k \in PartialKingdoms : Start(k, <<Town>>)

NextPartials ==
    \/ ClickEndTurn
    \/ ResumeEndTurn
    \/ Idle /\ ClickCollectResources
    \/ ResumeCollectResources
    \/ ClickPayConsumption
    \/ ResumePayConsumption
    \/ Idle /\ ClickUpdateResourcesWithin(MaxUpdates, PartialButtons)
    \/ ResumeUpdateResources
    \/ PostUpdateResources
    \/ Idle /\ PayStructure
    \/ ResumeUpdate
    \/ SaveUpdateResources
    \/ SavePayStructure
    \/ RenderPaidStructure
    \/ ResumeAwait

SpecPartials == InitPartials /\ [][NextPartials]_vars

\* every sub-field of the nested fields is there
FullyReconstructed(k) ==
    /\ DOMAIN k.resourcePoints = ResourceTurn
    /\ DOMAIN k.resourceDice = ResourceTurn
    /\ DOMAIN k.consumption = ResourceTurn \cup {"armies"}
    /\ DOMAIN k.commodities = ResourceTurn
    /\ \A t \in ResourceTurn : DOMAIN k.commodities[t] = Commodity
    /\ DOMAIN k.ruin = Ruin
    /\ \A r \in Ruin : DOMAIN k.ruin[r] = DOMAIN NoRuin

\* the paths of the sub-fields
LeafPaths ==
    {<<f, t>> : f \in {"resourcePoints", "resourceDice", "consumption"}, t \in ResourceTurn}
        \cup {<<"consumption", "armies">>}
        \cup {<<"commodities", t, c>> : t \in ResourceTurn, c \in Commodity}
        \cup {<<"ruin", r, f>> : r \in Ruin, f \in DOMAIN NoRuin}

LeafAt(k, path) ==
    IF Len(path) = 2 THEN k[path[1]][path[2]] ELSE k[path[1]][path[2]][path[3]]

\* the sub-fields the last step writes
WrittenLeaves ==
    IF step = "endTurn"
    THEN {p \in LeafPaths : p[1] # "ruin" /\ p # <<"consumption", "armies">>}
    ELSE IF step = "collectResources"
    THEN {<<"resourcePoints", "now">>, <<"resourceDice", "now">>}
            \cup {<<"commodities", "now", c>> : c \in Commodity \ {"food"}}
    ELSE IF step = "payConsumption" THEN {<<"commodities", "now", "food">>}
    ELSE IF step = "updateResources" /\ out.error = "none"
    THEN LET type == out.button.type
             turn == out.button.turn
         IN  IF type \in {"roll-resource-dice", "resource-points"}
             THEN {<<"resourcePoints", turn>>}
             ELSE IF type = "resource-dice" THEN {<<"resourceDice", turn>>}
             ELSE IF type \in Ruin THEN {<<"ruin", type, "value">>}
             ELSE IF type \in Commodity THEN {<<"commodities", turn, type>>}
             ELSE {}
    ELSE IF step = "payStructure"
    THEN \* built from the record the browser holds: the two fields it names
         {p \in LeafPaths : p[1] \in {"commodities", "resourcePoints"}}
    ELSE {}

\* the top-level fields the partial of the last step names
WrittenFields == {p[1] : p \in WrittenLeaves}

\* a sub-field the step does not write is carried over: from the record the
\* partial was built from when the partial names its top-level field, and
\* from the stored record when the merge leaves that field alone
CarriedOver(p) ==
    LeafAt(kingdom, p) = LeafAt(IF p[1] \in WrittenFields THEN pre ELSE prior, p)

C32_PartialsFullyReconstructed ==
    /\ FullyReconstructed(kingdom)
    /\ \A p \in LeafPaths \ WrittenLeaves : CarriedOver(p)

\* a payment saved over a record whose next column and ruin hold values
C32_Witness ==
    /\ step = "payStructure"
    /\ out.chat[1].costs.rp = 5
    /\ pre.commodities.next.ore = 3
    /\ kingdom.commodities.next = pre.commodities.next
    /\ kingdom.commodities.now.ore = 0
    /\ kingdom.resourcePoints = [now |-> 0, next |-> 2]
    /\ kingdom.ruin.strife.value = 2

----------------------------------------------------------------------------
\* The raw yield of the work sites: calculateCommoditiesThisTurn applied to
\* records that differ in their work sites.

WorkSites == [quantity : Values, resources : {0, 2}]

YieldKingdoms ==
    {[DefaultKingdom EXCEPT !.workSites = sites] :
        sites \in [mines : WorkSites, lumberCamps : WorkSites, luxurySources : WorkSites]}

CalculateCommoditiesThisTurn ==
    /\ step = "init"
    /\ Called("calculateCommoditiesThisTurn", kingdom,
              [args |-> kingdom, result |-> calculateCommoditiesThisTurn(kingdom)])

InitYield == \E k \in YieldKingdoms : Start(k, <<>>)

NextYield == CalculateCommoditiesThisTurn

SpecYield == InitYield /\ [][NextYield]_vars

----------------------------------------------------------------------------
\* C33: the raw yield of a turn is, for each work-site type, its quantity
\* plus its bonus resources: ore and lumber both from the mines, luxuries
\* from the luxury sources, stone from the lumber camps; food has no raw
\* yield.

SiteYield(site) == site.quantity + site.resources

C33_RawYield ==
    step = "calculateCommoditiesThisTurn" =>
        /\ DOMAIN out.result = Commodity \ {"food"}
        /\ out.result.ore = SiteYield(out.args.workSites.mines)
        /\ out.result.lumber = SiteYield(out.args.workSites.mines)
        /\ out.result.luxuries = SiteYield(out.args.workSites.luxurySources)
        /\ out.result.stone = SiteYield(out.args.workSites.lumberCamps)

\* mines, camps and luxury sources that yield different amounts
C33_Witness ==
    /\ step = "calculateCommoditiesThisTurn"
    /\ out.args.workSites.mines = [quantity |-> 1, resources |-> 2]
    /\ out.args.workSites.lumberCamps = [quantity |-> 2, resources |-> 0]
    /\ out.args.workSites.luxurySources = [quantity |-> 3, resources |-> 2]
    /\ out.result = [ore |-> 3, lumber |-> 3, luxuries |-> 5, stone |-> 2]

----------------------------------------------------------------------------
\* CheckForEvent turn after turn, with nothing else in between.

\* event checks explored per run
MaxChecks == 3

\* event checks explored under way at a time
MaxOverlap == 2

\* a check for an event: the listener of #km-check-event runs checkForEvent
\* on every click of the button, whether or not a check is still under way
ClickCheckForEventInTurn == ClickCheckForEventWithin(MaxChecks)

\* the sheet on screen and the chat log after `checks` checks without an event
SheetLogged(k, checks) == [checks |-> checks] @@ SheetShown(k)

\* t turns have ended without an event since the last one
InitEventTurns ==
    \E t \in 0..3 :
        LET k == [DefaultKingdom EXCEPT !.turnsWithoutEvent = t]
        IN  StartIn(k, <<>>, SheetLogged(k, t))

NextEventTurns ==
    \/ BagCardinality(tasks) < MaxOverlap /\ ClickCheckForEventInTurn
    \/ ResumeAwait
    \/ ResumeCheckForEvent
    \/ ResumeUpdate

SpecEventTurns == InitEventTurns /\ [][NextEventTurns]_vars

----------------------------------------------------------------------------
\* C34: starting from turnsWithoutEvent <= 3 and changing the counter only
\* through CheckForEvent, turnsWithoutEvent never exceeds 3: once the counter
\* is 3 the DC is 1 and every 1d20 succeeds, so an event occurs at the latest
\* on the fourth consecutive check after the previous event: no more than
\* three checks in a row end without one.
C34_EventWithinFourChecks ==
    /\ kingdom.turnsWithoutEvent \in 0..3
    /\ step = "checkForEvent" /\ pre.turnsWithoutEvent = 3 =>
          /\ out.rolls[1].dc = 1
          /\ Posted("An event occurs, roll a Kingdom Event!")
          /\ kingdom.turnsWithoutEvent = 0
    /\ host.checks <= 3

----------------------------------------------------------------------------
\* The economy handlers, from records whose stock at hand is within the
\* capacity.

WithinCapacity(k, list) ==
    LET capacity == calculateStorageCapacity(getSizeData(k.size).commodityCapacity,
                                             getSettlementData(list).storage)
    IN  \A c \in Commodity : 0 <= k.commodities.now[c] /\ k.commodities.now[c] <= capacity[c]

InitStock ==
    \E k \in CommodityKingdoms, list \in SettlementLists :
        WithinCapacity(k, list) /\ Start(k, list)

NextStock ==
    \/ Idle /\ ClickCollectResources
    \/ ResumeCollectResources
    \/ Idle /\ ClickPayConsumption
    \/ ResumePayConsumption
    \/ Idle /\ ClickEndTurn
    \/ ResumeEndTurn
    \/ ResumeUpdate
    \/ ResumeAwait

SpecStock == InitStock /\ [][NextStock]_vars

----------------------------------------------------------------------------
\* C35: with fixed non-negative capacities, work-site yields and next-column
\* values, after any sequence of CollectResources, PayConsumption and EndTurn
\* steps from a state in which 0 <= commodities.now[c] <= capacity[c] for all
\* five commodities, that bound still holds for all five.
C35_StockWithinCapacity ==
    \A c \in Commodity :
        /\ 0 <= kingdom.commodities.now[c]
        /\ kingdom.commodities.now[c] <= CapacityOf(kingdom, c)

\* an end of turn whose next column would overfill the lumber store
C35_Witness ==
    /\ step = "endTurn"
    /\ pre.commodities.now.lumber + pre.commodities.next.lumber
          > CapacityOf(kingdom, "lumber")
    /\ kingdom.commodities.now.lumber = CapacityOf(kingdom, "lumber")
    /\ kingdom.commodities.now.food > 0

----------------------------------------------------------------------------
\* C36: payStructure deducts the costs from the Kingdom record as persisted
\* at the moment of payment: when a turn step or a resource button has saved
\* since the structure browser last read the record, the saved
\* commodities.now and resourcePoints are the then-persisted values minus
\* the costs, floored at 0, with food and the next columns unchanged.
C36_PaysFromPersistedRecord ==
    step = "payStructure" =>
        /\ \A c \in Commodity \ {"food"} :
              kingdom.commodities.now[c] = Max(0, prior.commodities.now[c] - PaidCosts[c])
        /\ kingdom.commodities.now.food = prior.commodities.now.food
        /\ kingdom.commodities.next = prior.commodities.next
        /\ kingdom.resourcePoints.now = Max(0, prior.resourcePoints.now - PaidCosts.rp)
        /\ kingdom.resourcePoints.next = prior.resourcePoints.next

----------------------------------------------------------------------------
\* The resource dice: the number the sheet shows (getData) and the number
\* collectResources rolls, for records that differ in level, size and feats.

\* resourceDiceNum of getData
resourceDiceNum(kingdomData) ==
    LET levelData == getLevelData(kingdomData.level)
    IN  levelData.resourceDice
            + insiderTradingResources(kingdomData.feats, kingdomData.bonusFeats)

DiceKingdoms ==
    {[DefaultKingdom EXCEPT
        !.level = level, !.size = size, !.feats = f, !.bonusFeats = b,
        !.resourceDice.now = rdNow] :
      level \in {1, 5, 9, 20}, size \in {1, 9, 10, 25}, f \in FeatLists,
      b \in {<<>>, <<InsiderTrading>>}, rdNow \in {0, 2}}

\* the sheet rendered and the dice of a collectResources counted, on one record
CountResourceDice ==
    /\ step = "init"
    /\ Called("countResourceDice", kingdom,
              [args |-> kingdom,
               shown |-> resourceDiceNum(kingdom),
               rolled |-> collectDice(kingdom)])

InitDice == \E k \in DiceKingdoms : Start(k, <<>>)

NextDice == CountResourceDice

SpecDice == InitDice /\ [][NextDice]_vars

----------------------------------------------------------------------------
\* C37: the number of dice CollectResources rolls equals the resourceDiceNum
\* shown on the sheet plus the stored resourceDice.now: both take the base
\* resource dice of the kingdom level and the same Insider Trading bonus,
\* for every combination of level and size.
C37_RolledDiceAsShown ==
    step = "countResourceDice" =>
        out.rolled = out.shown + out.args.resourceDice.now

----------------------------------------------------------------------------
\* The sheet on its own: shown, closed, and told of scene and token events
\* (kingdom.ts: activateListeners, sceneChange, close).

\* renders, closes and hook events explored per run
MaxSheetSteps == 6

\* a step of the sheet: the record is not written
SheetStep(name, hosted, result) ==
    /\ clicks' = clicks + 1
    /\ host' = hosted
    /\ pre' = kingdom
    /\ prior' = kingdom
    /\ step' = name
    /\ out' = result
    /\ UNCHANGED <<kingdom, settlements, tasks>>

\* the sheet is shown, or rendered again after a tab click: getData reads
\* the stored record
Render ==
    /\ clicks < MaxSheetSteps
    /\ host.sheet # "closed"
    /\ SheetStep("render", getData(render(host), kingdom),
                 [was |-> host.sheet, called |-> 0])

Close ==
    /\ clicks < MaxSheetSteps
    /\ host.sheet = "rendered"
    /\ SheetStep("close", close(host), [was |-> host.sheet, called |-> 0])

\* the host calls a hook: every function registered for it runs, each a
\* bound sceneChange asking for a render; the host renders the sheet once
\* when it is rendered (getData reads the stored record) and not at all when
\* it is not
SceneEvent ==
    /\ clicks < MaxSheetSteps
    /\ \E hook \in SheetHooks :
        LET called == Cardinality({i \in 1..Len(host.hooks) : host.hooks[i].hook = hook})
        IN  SheetStep("sceneEvent",
                      IF called > 0 /\ host.sheet = "rendered"
                      THEN getData(render(host), kingdom) ELSE host,
                      [was |-> host.sheet, hook |-> hook, called |-> called])

InitSheet ==
    /\ kingdom = DefaultKingdom
    /\ settlements = <<Town>>
    /\ pre = DefaultKingdom
    /\ prior = DefaultKingdom
    /\ step = "init"
    /\ out = [was |-> "none", called |-> 0]
    /\ clicks = 0
    /\ tasks = NoTasks
    /\ host = [hooks |-> <<>>, bound |-> 0, sheet |-> "none"]

NextSheet ==
    \/ Render
    \/ Close
    \/ SceneEvent

SpecSheet == InitSheet /\ [][NextSheet]_vars

----------------------------------------------------------------------------
\* C38: after close(), none of the canvasReady, createToken and deleteToken
\* listeners registered by the sheet's activateListeners remains registered,
\* however many times the sheet was rendered before closing, and a scene or
\* token event after close runs no sceneChange of the closed sheet.
C38_CloseRemovesListeners ==
    /\ host.sheet = "closed" =>
          \A i \in 1..Len(host.hooks) : host.hooks[i].hook \notin SheetHooks
    /\ step = "sceneEvent" /\ out.was = "closed" => out.called = 0

----------------------------------------------------------------------------
\* The schema migrations (migrations.ts: migrations, createBackups, migrate).
\* host.settings are the world settings, host.camping the camping record;
\* what a migration does to a record is outside the sources at hand and is
\* kept as the list of the versions whose migration ran on it (migratedBy).
\* A call of migrate that passes its guard returns to its caller at its
\* first await and goes on, await by await, when the host settles the call
\* it waits for; other calls of migrate may run in between.

\* calls of migrate explored per run
MaxMigrateCalls == 2

\* the list of migrations, each known by its version
migrations == <<[version |-> 2], [version |-> 3]>>

MaxOf(numbers) == CHOOSE m \in numbers : \A n \in numbers : n <= m

\* Math.max(1, ...migrations.map(m => m.version))
latestMigration == MaxOf({1} \cup {migrations[i].version : i \in 1..Len(migrations)})

\* the guard of migrate, had it let every user migrate
migrateGuardAnyUser(h, currentVersion) == currentVersion < latestMigration

\* the guard of migrate
migrateGuard(h, currentVersion) == h.isFirstGm /\ currentVersion < latestMigration

\* the filter of migrate, had it kept every migration
migrationsToRunAll(currentVersion) == migrations

\* migrations.filter(m => m.version > currentVersion)
migrationsToRun(currentVersion) ==
    SelectSeq(migrations, LAMBDA m : m.version > currentVersion)

\* the backup createBackups builds from the records as they are stored
createBackups(h, k, currentVersion) ==
    [version |-> currentVersion,
     camping |-> IF h.campingActor THEN defined(h.camping) ELSE undefined,
     kingdom |-> IF h.kingdomActor THEN defined(k) ELSE undefined]

\* one call of a method of each migration of the list, in order
migrationCalls(method, list) ==
    [i \in 1..Len(list) |-> [op |-> method, version |-> list[i].version]]

\* the calls migrate awaits under its guard, in order
migrateAwaits(h, currentVersion) ==
    LET toRun == migrationsToRun(currentVersion)
    IN  <<[op |-> "createBackups", version |-> currentVersion]>>
        \o (IF h.kingdomActor
            THEN migrationCalls("migrateKingdom", toRun)
                    \o <<[op |-> "saveKingdom", version |-> currentVersion]>>
            ELSE <<>>)
        \o (IF h.campingActor
            THEN migrationCalls("migrateCamping", toRun)
                    \o <<[op |-> "saveCamping", version |-> currentVersion]>>
            ELSE <<>>)
        \o migrationCalls("migrateOther", toRun)
        \o <<[op |-> "setSchemaVersion", version |-> latestMigration]>>

\* what an awaited call does: w.kingdom is the stored kingdom record, w.host
\* the settings, the stored camping record and the rest of the world, w.run
\* the call of migrate with the records it works on
migrateEffect(w, call) ==
    CASE call.op = "createBackups" ->
            [w EXCEPT !.host.settings.latestMigrationBackup = defined(w.run.backup)]
      [] call.op = "migrateKingdom" ->
            [w EXCEPT !.run.kingdom.migratedBy = @ \o <<call.version>>]
      [] call.op = "saveKingdom" ->
            [w EXCEPT !.kingdom = saveKingdom(@, w.run.kingdom)]
      [] call.op = "migrateCamping" ->
            [w EXCEPT !.run.camping.migratedBy = @ \o <<call.version>>]
      [] call.op = "saveCamping" ->
            [w EXCEPT !.host.camping = w.run.camping]
      [] call.op = "migrateOther" ->
            [w EXCEPT !.host.other = @ \o <<call.version>>]
      [] call.op = "setSchemaVersion" ->
            [w EXCEPT !.host.settings.schemaVersion = call.version]

\* getKingdom and getCamping of migrate: each record is read when the loop
\* over it is reached
migrateReads(w, from, to) ==
    IF from.op = "createBackups" /\ to.op \in {"migrateKingdom", "saveKingdom"}
    THEN [w EXCEPT !.run.kingdom = w.kingdom]
    ELSE IF /\ from.op \in {"createBackups", "saveKingdom"}
            /\ to.op \in {"migrateCamping", "saveCamping"}
         THEN [w EXCEPT !.run.camping = w.host.camping]
         ELSE w

\* the awaited calls that change what is stored in the world; a migration
\* of a record changes the record migrate holds, which nothing else reads
\* before it is saved
StoresInWorld(call) ==
    call.op \in {"createBackups", "saveKingdom", "saveCamping", "migrateOther",
                 "setSchemaVersion"}

\* migrate makes its i-th awaited call and waits for it; the call has had
\* its effect when it returns, or has it when it is settled
migrateCalled(w, i, done) ==
    LET call == w.run.awaits[i]
        called == [w EXCEPT !.run.await = i, !.run.done = done,
                            !.run.journal = Append(@, call)]
    IN  IF done THEN migrateEffect(called, call) ELSE called

\* what is kept of a call of migrate: the world and the kingdom record it
\* was made in, the calls it has made, its number, the number of calls that
\* had returned before it, and whether no other call ran beside it
migrateOut(run) ==
    [before |-> run.before, journal |-> run.journal, call |-> run.call,
     returned |-> run.returned, alone |-> run.alone, backup |-> run.backup]

\* the calls of migrate that wait
Migrating == {run \in BagToSet(tasks) : run.handler = "migrate"}

\* migrate is called: outside the guard it returns, inside it notifies,
\* builds the backup and waits for the setting to be stored
Migrate ==
    /\ clicks < MaxMigrateCalls
    /\ clicks' = clicks + 1
    /\ pre' = kingdom
    /\ prior' = kingdom
    /\ LET currentVersion == host.settings.schemaVersion
           run == [handler |-> "migrate", await |-> 0, done |-> FALSE,
                   call |-> clicks + 1,
                   returned |-> clicks - BagCardinality(tasks),
                   alone |-> tasks = NoTasks,
                   before |-> host, read |-> kingdom,
                   backup |-> createBackups(host, kingdom, currentVersion),
                   awaits |-> migrateAwaits(host, currentVersion),
                   kingdom |-> kingdom, camping |-> host.camping,
                   journal |-> <<[op |-> "notify", version |-> currentVersion]>>]
       IN  IF migrateGuard(host, currentVersion)
           THEN \E done \in {d \in BOOLEAN : d => StoresInWorld(run.awaits[1])} :
                    LET w == migrateCalled([kingdom |-> kingdom, host |-> host,
                                            run |-> run], 1, done)
                    IN  /\ kingdom' = w.kingdom
                        /\ host' = w.host
                        /\ tasks' = SetToBag({[other EXCEPT !.alone = FALSE] :
                                                 other \in BagToSet(tasks)})
                                        (+) SetToBag({w.run})
                        /\ step' = "migrate:await"
                        /\ out' = migrateOut(w.run)
           ELSE /\ step' = "migrate"
                /\ out' = migrateOut([run EXCEPT !.journal = <<>>])
                /\ UNCHANGED <<kingdom, host, tasks>>
    /\ UNCHANGED settlements

\* the host settles the call a migrate waits for: migrate makes its next
\* awaited call, or notifies and returns after the last
ResumeMigrate ==
    \E run \in Migrating :
        LET rest == tasks (-) SetToBag({run})
            i == run.await
            started == [kingdom |-> kingdom, host |-> host, run |-> run]
            settled == IF run.done THEN started
                       ELSE migrateEffect(started, run.awaits[i])
        IN  /\ pre' = run.read
            /\ prior' = kingdom
            /\ IF i = Len(run.awaits)
               THEN /\ kingdom' = settled.kingdom
                    /\ host' = settled.host
                    /\ tasks' = rest
                    /\ step' = "migrate"
                    /\ out' = migrateOut(
                                [run EXCEPT !.journal =
                                    Append(@, [op |-> "notify",
                                               version |-> latestMigration])])
               ELSE \E done \in {d \in BOOLEAN :
                                    d => StoresInWorld(run.awaits[i + 1])} :
                        LET w == migrateCalled(
                                    migrateReads(settled, run.awaits[i],
                                                 run.awaits[i + 1]),
                                    i + 1, done)
                        IN  /\ kingdom' = w.kingdom
                            /\ host' = w.host
                            /\ tasks' = rest (+) SetToBag({w.run})
                            /\ step' = "migrate:await"
                            /\ out' = migrateOut(w.run)
            /\ UNCHANGED <<settlements, clicks>>

\* a record that no migration has run on
Unmigrated(record) ==
    [f \in DOMAIN record \cup {"migratedBy"} |->
        IF f = "migratedBy" THEN <<>> ELSE record[f]]

\* the worlds migrate is called in: the stored schemaVersion, whether the
\* user is the first GM, and whether the kingdom and camping actors exist
MigrationHosts ==
    {[isFirstGm |-> gm, kingdomActor |-> ka, campingActor |-> ca,
      camping |-> [migratedBy |-> <<>>], other |-> <<>>,
      settings |-> [schemaVersion |-> v, latestMigrationBackup |-> undefined]] :
        gm \in BOOLEAN, ka \in BOOLEAN, ca \in BOOLEAN, v \in 1..latestMigration}

InitMigration ==
    /\ kingdom = Unmigrated(DefaultKingdom)
    /\ settlements = <<>>
    /\ pre = kingdom
    /\ prior = kingdom
    /\ step = "init"
    /\ host \in MigrationHosts
    /\ out = [before |-> host, journal |-> <<>>, call |-> 0, returned |-> 0,
              alone |-> TRUE,
              backup |-> createBackups(host, kingdom, host.settings.schemaVersion)]
    /\ clicks = 0
    /\ tasks = NoTasks

\* at most two calls of migrate run beside each other
NextMigration ==
    \/ (\A a, b \in Migrating : a = b) /\ Migrate
    \/ ResumeMigrate

SpecMigration == InitMigration /\ [][NextMigration]_vars

----------------------------------------------------------------------------
\* C39: migrate runs exactly the migrations whose version is greater than
\* the stored schemaVersion, each once and in list order, and then sets
\* schemaVersion to the highest migration version; a second call to migrate
\* immediately afterwards runs no migration and writes nothing.

\* the versions of the migrations above the schemaVersion stored before the call
VersionsAbove ==
    LET above == SelectSeq(migrations,
                           LAMBDA m : m.version > out.before.settings.schemaVersion)
    IN  [i \in 1..Len(above) |-> above[i].version]

\* the versions whose method the call ran, in the order it ran them
VersionsRun(method) ==
    LET calls == SelectSeq(out.journal, LAMBDA c : c.op = method)
    IN  [i \in 1..Len(calls) |-> calls[i].version]

\* the call wrote a record or a setting
Wrote ==
    \/ host # out.before
    \/ kingdom # pre
    \/ \E i \in 1..Len(out.journal) :
          out.journal[i].op \in {"createBackups", "saveKingdom", "saveCamping",
                                 "setSchemaVersion"}

RanAbove ==
    /\ VersionsRun("migrateOther") = VersionsAbove
    /\ out.before.kingdomActor => VersionsRun("migrateKingdom") = VersionsAbove
    /\ out.before.campingActor => VersionsRun("migrateCamping") = VersionsAbove
    /\ host.settings.schemaVersion = latestMigration

\* the call that has returned was made under the guard of migrate
PassedGuard ==
    out.before.isFirstGm /\ out.before.settings.schemaVersion < latestMigration

\* as stated, for every caller and every stored version
C39_MigrateRunsNewer ==
    /\ step = "migrate" /\ out.call = 1 => RanAbove
    /\ step = "migrate" /\ out.call = 2 /\ out.returned = 1
          => out.journal = <<>> /\ ~Wrote

\* for the first GM of a world whose schemaVersion is below the highest
\* migration version: the call has run the migrations above the stored
\* version in list order and set schemaVersion last, and with no other call
\* beside it each record carries just these migrations; any other call, and
\* any call made after a call has returned, runs no migration and writes
\* nothing
C39_FirstGmMigrateRunsNewer ==
    /\ step = "migrate" /\ PassedGuard
          => /\ RanAbove
             /\ out.journal[Len(out.journal) - 1].op = "setSchemaVersion"
             /\ out.alone
                  => /\ host.other = out.before.other \o VersionsAbove
                     /\ out.before.kingdomActor
                          => kingdom.migratedBy = pre.migratedBy \o VersionsAbove
                     /\ out.before.campingActor
                          => host.camping.migratedBy =
                                out.before.camping.migratedBy \o VersionsAbove
    /\ step = "migrate" /\ ~PassedGuard => out.journal = <<>> /\ ~Wrote
    /\ step = "migrate" /\ out.returned >= 1 => out.journal = <<>> /\ ~Wrote

\* a first GM's call on a world at version 2: only the migration to 3 runs
C39_Witness ==
    /\ step = "migrate"
    /\ out.before.isFirstGm /\ out.before.kingdomActor /\ out.before.campingActor
    /\ out.before.settings.schemaVersion = 2
    /\ out.alone
    /\ VersionsRun("migrateKingdom") = <<3>>
    /\ kingdom.migratedBy = <<3>>
    /\ host.settings.schemaVersion = 3

----------------------------------------------------------------------------
\* C40: in migrate, the backup of the kingdom and camping records at the
\* current schema version is written before any migration is applied and
\* before schemaVersion changes; when the caller is not the first GM or
\* schemaVersion is already at the latest version, no backup is written and
\* no record or setting is modified.

\* the positions in the journal of the calls of the given kinds
JournalPositions(journal, ops) == {i \in 1..Len(journal) : journal[i].op \in ops}

\* in the calls a migrate has made, createBackups comes before every
\* migration, save and change of the schemaVersion
BackupCalledFirst(journal) ==
    LET later == JournalPositions(journal,
                    {"migrateKingdom", "migrateCamping", "migrateOther",
                     "saveKingdom", "saveCamping", "setSchemaVersion"})
    IN  later # {} =>
            \E b \in JournalPositions(journal, {"createBackups"}) :
                \A i \in later : b < i

\* a backup is stored
BackupStored == host.settings.latestMigrationBackup # undefined

\* at every moment of every call: a call that has gone past createBackups,
\* a migrated record and a changed schemaVersion each find a backup stored,
\* and the backup of a call with no other call beside it holds the records
\* and the version of the moment of the call; a call outside the guard
\* leaves everything as it was
C40_BackupBeforeMigration ==
    /\ \A run \in Migrating :
          /\ BackupCalledFirst(run.journal)
          /\ run.await >= 2 => BackupStored
          /\ run.await >= 2 /\ run.alone
                => host.settings.latestMigrationBackup =
                      defined([version |-> run.before.settings.schemaVersion,
                               camping |-> IF run.before.campingActor
                                           THEN defined(run.before.camping)
                                           ELSE undefined,
                               kingdom |-> IF run.before.kingdomActor
                                           THEN defined(run.read) ELSE undefined])
    /\ (\/ kingdom.migratedBy # <<>>
        \/ host.camping.migratedBy # <<>>
        \/ host.other # <<>>
        \/ host.settings.schemaVersion # out.before.settings.schemaVersion)
          => BackupStored
    /\ step = "migrate" =>
          /\ BackupCalledFirst(out.journal)
          /\ PassedGuard /\ out.alone
                => host.settings.latestMigrationBackup =
                      defined([version |-> out.before.settings.schemaVersion,
                               camping |-> IF out.before.campingActor
                                           THEN defined(out.before.camping)
                                           ELSE undefined,
                               kingdom |-> IF out.before.kingdomActor
                                           THEN defined(pre) ELSE undefined])
          /\ ~PassedGuard
                => /\ JournalPositions(out.journal, {"createBackups"}) = {}
                   /\ host = out.before
                   /\ kingdom = pre

\* a first GM's call on a world at version 1 waits for the first migration
\* of the kingdom record: the backup is stored with the records as they
\* were, the schemaVersion is still 1 and nothing is migrated
C40_Witness ==
    /\ step = "migrate:await"
    /\ out.before.isFirstGm /\ out.before.kingdomActor /\ out.before.campingActor
    /\ out.before.settings.schemaVersion = 1
    /\ out.journal[Len(out.journal)] = [op |-> "migrateKingdom", version |-> 2]
    /\ host.settings.latestMigrationBackup[1].version = 1
    /\ host.settings.latestMigrationBackup[1].kingdom[1].migratedBy = <<>>
    /\ kingdom.migratedBy = <<>>
    /\ host.other = <<>>
    /\ host.settings.schemaVersion = 1

====
